---------------------------- MODULE Spec2Model ----------------------------
(***************************************************************************)
(* A model of the NestOS system service (routes/system.ts: the system-info,*)
(* performance, logs and Docker handlers) and of the ISO builder pipeline  *)
(* (buildIso).  Every subsystem has its own variables and its own          *)
(* specification; a specification boots one subsystem and leaves the       *)
(* variables of the others at their "off" value.                           *)
(***************************************************************************)
EXTENDS Integers, Sequences, FiniteSets, TLC

VARIABLES
    isoFs,        \* ISO builder: the set of paths that exist under BUILD_DIR
    isoPc,        \* ISO builder: index of the next step, or "returned"/"exited"
    isoStarted,   \* ISO builder: the steps started so far, in order
    isoFailed,    \* ISO builder: the index of the step that threw, 0 if none
    isoExit,      \* ISO builder: {} while running, {code} after process.exit
    isoOut,       \* ISO builder: the console messages of buildIso
    isoTrees,     \* ISO builder: the tree at the start and after each step
    journal,      \* GET /logs: what `journalctl -n 1000` does on this host
    syslog,       \* GET /logs: what `tail -n 1000 /var/log/system.log` does
    logsPc,       \* GET /logs: "idle", the command awaited, or "done"
    logsRan,      \* GET /logs: the commands the handler has run, in order
    logsReply,    \* GET /logs: the reply, once there is one
    fbBytes,      \* formatBytes: the argument, as base-1024 digits
    fbPc,         \* formatBytes: "call" before the call, "done" after
    fbOut,        \* formatBytes: what the call returned
    dsSamples,    \* GET /docker/stats: per running container, its stats sample
    dsPc,         \* GET /docker/stats: "idle", "listing", "stats" or "done"
    dsEntries,    \* GET /docker/stats: per container, its entry once computed
    dsReply,      \* GET /docker/stats: the reply, once there is one
    dsLogged,     \* GET /docker/stats: the errors written by console.error
    inQuery,      \* GET /info: the `detailed` member of request.query
    inDetailed,   \* GET /info: the parsed flag
    inPc,         \* GET /info: "idle", "basic", "detailed" or "done"
    inIssued,     \* GET /info: the host-facts queries issued so far
    inResolved,   \* GET /info: the queries that have resolved
    inRejected,   \* GET /info: the queries that have rejected
    inReply,      \* GET /info: the reply, once there is one
    ccBody,       \* POST /docker/containers: request.body
    ccPc,         \* POST /docker/containers: "idle", the call awaited, "done"
    ccCalls,      \* POST /docker/containers: the Docker calls made, in order
    ccOptions,    \* POST /docker/containers: the argument of createContainer
    ccExists,     \* POST /docker/containers: the container exists in Docker
    ccReply,      \* POST /docker/containers: the reply status, 0 before it
    pfClients,    \* POST /performance: the clients that send a request
    pfPrints,     \* POST /performance: per dd command, what it prints on stdout
    pfFioJson,    \* POST /performance: fio's stdout is the JSON expected
    pfPc,         \* POST /performance: per request, the phase awaited
    pfProc,       \* POST /performance: per request and measurement, its state
    pfFiles,      \* POST /performance: per path, the file there and its writers
    pfWritten,    \* POST /performance: per request, the paths it has written
    pfReply,      \* POST /performance: per request, the reply once sent
    pwPc,         \* /reboot, /shutdown, /update: per route "idle", "exec", "done"
    pwRan,        \* /reboot, /shutdown, /update: per route, the command run
    pwOutcome,    \* /reboot, /shutdown, /update: "ok" or the error's message
    pwReply,      \* /reboot, /shutdown, /update: per route, the reply
    ipBody,       \* POST /docker/images/pull: request.body.image
    ipPc,         \* POST /docker/images/pull: "idle", "pull", "follow", "done"
    ipStream,     \* POST /docker/images/pull: the state of the pull stream
    ipProgress,   \* POST /docker/images/pull: the progress events delivered
    ipSent,       \* POST /docker/images/pull: what the caller has been sent
    ipReply,      \* POST /docker/images/pull: the reply, once there is one
    caPc,         \* /containers/:id/start, /stop: per action "idle", "call", "done"
    caOutcome,    \* /containers/:id/start, /stop: "ok" or the error's message
    caReply,      \* /containers/:id/start, /stop: per action, the reply
    lcQuery,      \* GET /docker/containers: the `all` member of request.query
    lcPc,         \* GET /docker/containers: "idle", "listContainers", "done"
    lcAll,        \* GET /docker/containers: {all} once listContainers is called
    lcReply,      \* GET /docker/containers: the reply status, 0 before it
    cdFields,     \* CreateContainerDialog: the form fields (useState hooks)
    cdOpen,       \* CreateContainerDialog: the `open` prop
    cdPc,         \* CreateContainerDialog: per submission, the await reached
    cdData,       \* CreateContainerDialog: per submission, the data mutated
    cdResponses,  \* CreateContainerDialog: per submission, how each await settled
    cdSent,       \* CreateContainerDialog: the requests sent, in order
    cdEffects,    \* CreateContainerDialog: the effects of onSuccess, in order
    cdError,      \* CreateContainerDialog: per submission, the mutation's error
    rmRoute,      \* DELETE /containers/:id, /images/:id: the route requested
    rmParams,     \* DELETE routes: request.params
    rmPc,         \* DELETE routes: "idle", "remove" or "done"
    rmParsed,     \* DELETE routes: {what the schema parsed} once it has
    rmCalls,      \* DELETE routes: the remove calls made, in order
    rmReply       \* DELETE routes: the reply, once there is one

isoVars == <<isoFs, isoPc, isoStarted, isoFailed, isoExit, isoOut, isoTrees>>
logsVars == <<journal, syslog, logsPc, logsRan, logsReply>>
fbVars == <<fbBytes, fbPc, fbOut>>
dsVars == <<dsSamples, dsPc, dsEntries, dsReply, dsLogged>>
inVars == <<inQuery, inDetailed, inPc, inIssued, inResolved, inRejected, inReply>>
ccVars == <<ccBody, ccPc, ccCalls, ccOptions, ccExists, ccReply>>
pfVars == <<pfClients, pfPrints, pfFioJson, pfPc, pfProc, pfFiles, pfWritten, pfReply>>
pwVars == <<pwPc, pwRan, pwOutcome, pwReply>>
ipVars == <<ipBody, ipPc, ipStream, ipProgress, ipSent, ipReply>>
caVars == <<caPc, caOutcome, caReply>>
lcVars == <<lcQuery, lcPc, lcAll, lcReply>>
cdVars == <<cdFields, cdOpen, cdPc, cdData, cdResponses, cdSent, cdEffects, cdError>>
rmVars == <<rmRoute, rmParams, rmPc, rmParsed, rmCalls, rmReply>>

vars == <<isoVars, logsVars, fbVars, dsVars, inVars, ccVars, pfVars, pwVars, ipVars, caVars, lcVars, cdVars, rmVars>>

\* The variables of the other subsystems, which an action of `sys` leaves alone.
Others(sys) ==
    /\ IF sys = "iso" THEN TRUE ELSE UNCHANGED isoVars
    /\ IF sys = "logs" THEN TRUE ELSE UNCHANGED logsVars
    /\ IF sys = "bytes" THEN TRUE ELSE UNCHANGED fbVars
    /\ IF sys = "stats" THEN TRUE ELSE UNCHANGED dsVars
    /\ IF sys = "info" THEN TRUE ELSE UNCHANGED inVars
    /\ IF sys = "create" THEN TRUE ELSE UNCHANGED ccVars
    /\ IF sys = "perf" THEN TRUE ELSE UNCHANGED pfVars
    /\ IF sys = "power" THEN TRUE ELSE UNCHANGED pwVars
    /\ IF sys = "pull" THEN TRUE ELSE UNCHANGED ipVars
    /\ IF sys = "actions" THEN TRUE ELSE UNCHANGED caVars
    /\ IF sys = "list" THEN TRUE ELSE UNCHANGED lcVars
    /\ IF sys = "dialog" THEN TRUE ELSE UNCHANGED cdVars
    /\ IF sys = "remove" THEN TRUE ELSE UNCHANGED rmVars

(***************************************************************************)
(* Sequence helpers.                                                       *)
(***************************************************************************)
IsPrefix(s, t) == Len(s) <= Len(t) /\ SubSeq(t, 1, Len(s)) = s

(***************************************************************************)
(*                          ISO BUILDER PIPELINE                           *)
(***************************************************************************)

\* Paths are sequences of components below the package directory.
BUILD_DIR == <<"build">>
ISO_DIR == BUILD_DIR \o <<"iso">>
CHROOT_DIR == BUILD_DIR \o <<"chroot">>

GrubDir == ISO_DIR \o <<"boot", "grub">>
LiveDir == ISO_DIR \o <<"live">>
GrubCfg == GrubDir \o <<"grub.cfg">>
SquashFs == LiveDir \o <<"filesystem.squashfs">>
IsoImage == BUILD_DIR \o <<"nestos.iso">>
IsoKernel == ISO_DIR \o <<"boot", "vmlinuz">>
IsoInitrd == ISO_DIR \o <<"boot", "initrd.img">>
ChrootBoot == CHROOT_DIR \o <<"boot">>
ChrootEtc == CHROOT_DIR \o <<"etc">>
ChrootNetDir == ChrootEtc \o <<"network">>
ChrootAptDir == ChrootEtc \o <<"apt">>
ChrootKernel == ChrootBoot \o <<"vmlinuz-6.1">>
ChrootInitrd == ChrootBoot \o <<"initrd.img-6.1">>
ChrootOpt == CHROOT_DIR \o <<"opt", "nestos">>

\* The path with every ancestor directory (mkdir -p, and what a copy creates).
WithParents(p) == {SubSeq(p, 1, i) : i \in 1..Len(p)}

Closure(ps) == UNION {WithParents(p) : p \in ps}

Parent(p) == SubSeq(p, 1, Len(p) - 1)

Under(dir, p) == IsPrefix(dir, p)

\* One operation of a step: what it does and the paths it is about.
FsOp(kind, paths) == [op |-> kind, paths |-> paths]

\* The operation cannot complete on this tree: a verification that throws,
\* or a writeFile whose directory is missing (ENOENT).
MustFail(fs, o) ==
    CASE o.op = "require" -> ~(o.paths \subseteq fs)
      [] o.op = "writeFile" -> \E p \in o.paths : Parent(p) \notin fs
      [] OTHER -> FALSE

\* The operation may throw for a reason outside the model (a command's exit
\* status, an I/O error); pathExists and a verification that holds never do.
MayFail(fs, o) ==
    CASE o.op = "pathExists" -> FALSE
      [] o.op = "require" -> MustFail(fs, o)
      [] OTHER -> TRUE

\* fs-extra and command effects on the tree.
ApplyOp(fs, o) ==
    CASE o.op = "remove" -> {p \in fs : \A d \in o.paths : ~Under(d, p)}
      [] o.op \in {"ensureDir", "copy", "exec"} -> fs \cup Closure(o.paths)
      [] o.op = "writeFile" -> fs \cup o.paths
      [] OTHER -> fs

\* The tree after the first k operations of a step have completed.
RECURSIVE RunOps(_, _, _)
RunOps(fs, ops, k) ==
    IF k = 0 THEN fs ELSE ApplyOp(RunOps(fs, ops, k - 1), ops[k])

\* The first k operations can all complete, and if k is not the whole step,
\* operation k+1 is one that can throw there.
StopsAt(fs, ops, k) ==
    /\ \A i \in 1..k : ~MustFail(RunOps(fs, ops, i - 1), ops[i])
    /\ k < Len(ops) => MayFail(RunOps(fs, ops, k), ops[k + 1])

\* A first step that keeps an existing build directory.
setupBuildEnvironmentOpsKeeping ==
    << FsOp("ensureDir", {BUILD_DIR}),
       FsOp("ensureDir", {ISO_DIR}),
       FsOp("ensureDir", {CHROOT_DIR}),
       FsOp("ensureDir", {GrubDir}),
       FsOp("ensureDir", {LiveDir}),
       FsOp("exec", {}),
       FsOp("require", {BUILD_DIR, ISO_DIR, CHROOT_DIR}),
       FsOp("exec", {}) >>

setupBuildEnvironmentOps ==
    << FsOp("pathExists", {BUILD_DIR}),
       FsOp("remove", {BUILD_DIR}),
       FsOp("ensureDir", {BUILD_DIR}),
       FsOp("ensureDir", {ISO_DIR}),
       FsOp("ensureDir", {CHROOT_DIR}),
       FsOp("ensureDir", {GrubDir}),
       FsOp("ensureDir", {LiveDir}),
       FsOp("exec", {}),                                   \* chmod -R 777
       FsOp("require", {BUILD_DIR, ISO_DIR, CHROOT_DIR}),
       FsOp("exec", {}) >>                                 \* tree

\* debootstrap; hasNet: whether the base system ships /etc/network.
downloadBaseSystemOps(hasNet) ==
    << FsOp("exec", {ChrootEtc, ChrootAptDir, ChrootBoot}
                      \cup (IF hasNet THEN {ChrootNetDir} ELSE {})) >>

configureSystemOps ==
    << FsOp("copy", {ChrootEtc}),
       FsOp("writeFile", {ChrootEtc \o <<"hostname">>}),
       FsOp("writeFile", {ChrootNetDir \o <<"interfaces">>}),
       FsOp("writeFile", {ChrootAptDir \o <<"sources.list">>}) >>

\* apt-get update, apt-get install; boot: the boot files the install leaves.
installPackagesOps(boot) ==
    << FsOp("exec", {}),
       FsOp("exec", boot) >>

installNestOSComponentsOps ==
    << FsOp("copy", {ChrootOpt \o <<"system-service">>}),
       FsOp("copy", {ChrootOpt \o <<"control-panel">>}),
       FsOp("copy", {ChrootEtc \o <<"systemd", "system">>}),
       FsOp("exec", {}) >>                                 \* systemctl enable

\* A last step that does not verify that the image exists.
createISOOpsUnverified(made) ==
    << FsOp("exec", {}),
       FsOp("require", {ChrootBoot}),
       FsOp("require", {ChrootKernel, ChrootInitrd}),
       FsOp("copy", {IsoKernel}),
       FsOp("copy", {IsoInitrd}),
       FsOp("writeFile", {GrubCfg}),
       FsOp("ensureDir", {LiveDir}),
       FsOp("exec", {SquashFs}),
       FsOp("exec", {}),
       FsOp("exec", IF made THEN {IsoImage} ELSE {}),
       FsOp("exec", {}) >>

\* made: whether grub-mkrescue, having returned, left the image.
createISOOps(made) ==
    << FsOp("exec", {}),                                   \* update-initramfs
       FsOp("require", {ChrootBoot}),                      \* readdir
       FsOp("require", {ChrootKernel, ChrootInitrd}),
       FsOp("copy", {IsoKernel}),
       FsOp("copy", {IsoInitrd}),
       FsOp("writeFile", {GrubCfg}),
       FsOp("ensureDir", {LiveDir}),
       FsOp("exec", {SquashFs}),                           \* mksquashfs
       FsOp("exec", {}),                                   \* tree
       FsOp("exec", IF made THEN {IsoImage} ELSE {}),      \* grub-mkrescue
       FsOp("require", {IsoImage}),
       FsOp("exec", {}) >>                                 \* stat

Steps ==
    << "setupBuildEnvironment", "downloadBaseSystem", "configureSystem",
       "installPackages", "installNestOSComponents", "createISO" >>

StepIndex(step) == CHOOSE i \in 1..Len(Steps) : Steps[i] = step

\* What a previous run may have left under BUILD_DIR.
StaleFiles == {IsoImage, ChrootKernel, SquashFs, GrubCfg}

IsoInit ==
    /\ isoFs \in {Closure(ps) : ps \in SUBSET StaleFiles}
    /\ isoPc = "idle"
    /\ isoStarted = <<>>
    /\ isoFailed = "none"
    /\ isoExit = {}
    /\ isoOut = <<>>
    /\ isoTrees = <<isoFs>>

IsoOff ==
    /\ isoFs = {}
    /\ isoPc = "off"
    /\ isoStarted = <<>>
    /\ isoFailed = "none"
    /\ isoExit = {}
    /\ isoOut = <<>>
    /\ isoTrees = <<>>

\* buildIso up to its first await.
buildIsoStart ==
    /\ isoPc = "idle"
    /\ isoPc' = Steps[1]
    /\ isoOut' = Append(isoOut, "Starting NestOS ISO build process...")
    /\ UNCHANGED <<isoFs, isoStarted, isoFailed, isoExit, isoTrees>>
    /\ Others("iso")

\* The awaited step returned: the next await, or the end of the try block.
buildIsoContinue(step) ==
    /\ isoPc' = IF StepIndex(step) < Len(Steps)
                THEN Steps[StepIndex(step) + 1] ELSE "returned"
    /\ isoOut' = IF StepIndex(step) < Len(Steps)
                 THEN isoOut
                 ELSE isoOut \o << "Build completed successfully!",
                                   "ISO image available at: build/nestos.iso" >>
    /\ UNCHANGED <<isoFailed, isoExit>>

\* A catch block that logs the error and lets the pipeline go on.
buildIsoCatchNoExit(step, error) ==
    /\ isoFailed' = step
    /\ isoPc' = IF StepIndex(step) < Len(Steps)
                THEN Steps[StepIndex(step) + 1] ELSE "returned"
    /\ isoOut' = isoOut \o <<"Build failed:", error>>
    /\ isoExit' = isoExit

\* The awaited step threw (each step rethrows from its own catch): the catch
\* block of buildIso, which prints the error (here: the operation that threw).
buildIsoCatch(step, error) ==
    /\ isoFailed' = step
    /\ isoOut' = isoOut \o <<"Build failed:", error>>
    /\ isoExit' = {1}
    /\ isoPc' = "exited"

\* A pipeline that removes the build directory when a step throws.
RunStepCleaning(step, ops) ==
    \E k \in 0..Len(ops) :
        /\ StopsAt(isoFs, ops, k)
        /\ isoFs' = IF k = Len(ops) THEN RunOps(isoFs, ops, k) ELSE {}
        /\ isoStarted' = Append(isoStarted, step)
        /\ isoTrees' = IF k = Len(ops) THEN Append(isoTrees, isoFs') ELSE isoTrees
        /\ IF k = Len(ops) THEN buildIsoContinue(step) ELSE buildIsoCatch(step, ops[k + 1].op)

\* One awaited step of buildIso: its operations run in order until one
\* throws or all have completed.
RunStep(step, ops) ==
    \E k \in 0..Len(ops) :
        /\ StopsAt(isoFs, ops, k)
        /\ isoFs' = RunOps(isoFs, ops, k)
        /\ isoStarted' = Append(isoStarted, step)
        /\ isoTrees' = IF k = Len(ops) THEN Append(isoTrees, isoFs') ELSE isoTrees
        /\ IF k = Len(ops) THEN buildIsoContinue(step) ELSE buildIsoCatch(step, ops[k + 1].op)

setupBuildEnvironment ==
    /\ isoPc = "setupBuildEnvironment"
    /\ RunStep("setupBuildEnvironment", setupBuildEnvironmentOps)
    /\ Others("iso")

downloadBaseSystem ==
    /\ isoPc = "downloadBaseSystem"
    /\ \E hasNet \in BOOLEAN :
          RunStep("downloadBaseSystem", downloadBaseSystemOps(hasNet))
    /\ Others("iso")

configureSystem ==
    /\ isoPc = "configureSystem"
    /\ RunStep("configureSystem", configureSystemOps)
    /\ Others("iso")

installPackages ==
    /\ isoPc = "installPackages"
    /\ \E boot \in SUBSET {ChrootKernel, ChrootInitrd} :
          RunStep("installPackages", installPackagesOps(boot))
    /\ Others("iso")

installNestOSComponents ==
    /\ isoPc = "installNestOSComponents"
    /\ RunStep("installNestOSComponents", installNestOSComponentsOps)
    /\ Others("iso")

createISO ==
    /\ isoPc = "createISO"
    /\ \E made \in BOOLEAN : RunStep("createISO", createISOOps(made))
    /\ Others("iso")

IsoNext ==
    \/ buildIsoStart
    \/ setupBuildEnvironment
    \/ downloadBaseSystem
    \/ configureSystem
    \/ installPackages
    \/ installNestOSComponents
    \/ createISO

(* C1: buildIso starts the six steps strictly in the order of Steps; once  *)
(* step N has thrown, no later step has been started, the process has      *)
(* exited with code 1 and the success message has not been printed.        *)
C1_AbortOnFirstFailure ==
    /\ IsPrefix(isoStarted, Steps)
    /\ isoFailed # "none" =>
          /\ isoStarted = SubSeq(Steps, 1, StepIndex(isoFailed))
          /\ isoPc = "exited"
          /\ isoExit = {1}
          /\ \A i \in 1..Len(isoOut) : isoOut[i] # "Build completed successfully!"

C1_Witness ==
    /\ isoFailed = "configureSystem"
    /\ isoStarted = SubSeq(Steps, 1, 3)
    /\ isoExit = {1}

(* C17: when setupBuildEnvironment has returned, whatever was under the   *)
(* build directory before, the tree is the build directory with the        *)
(* directories iso, chroot, iso/boot/grub and iso/live (and iso/boot above *)
(* grub) and nothing else: no file of an earlier run is left.              *)
C17_Step1RecreatesBuildDir ==
    Len(isoTrees) >= 2 =>
        /\ isoTrees[2] = {BUILD_DIR, ISO_DIR, CHROOT_DIR, ISO_DIR \o <<"boot">>,
                          ISO_DIR \o <<"boot", "grub">>, ISO_DIR \o <<"live">>}
        /\ isoPc = "downloadBaseSystem" => isoFs = isoTrees[2]

\* Step 1 has returned on a build directory that held an image, a populated
\* chroot and the files of an earlier ISO tree.
C17_Witness ==
    /\ isoPc = "downloadBaseSystem"
    /\ {IsoImage, ChrootKernel, SquashFs, GrubCfg} \subseteq isoTrees[1]
    /\ IsoImage \notin isoFs

(* C18: when 'Build completed successfully!' has been printed, grub.cfg,   *)
(* filesystem.squashfs and nestos.iso exist and all six steps have run;    *)
(* when createISO has run on a chroot whose boot directory lacks the       *)
(* kernel or the initrd, or grub-mkrescue has left no nestos.iso, the      *)
(* step has thrown and the process has exited with code 1.                 *)
C18_SuccessMeansCompleteLayout ==
    /\ (\E i \in 1..Len(isoOut) : isoOut[i] = "Build completed successfully!") =>
          /\ {GrubCfg, SquashFs, IsoImage} \subseteq isoFs
          /\ isoPc = "returned"
          /\ isoStarted = Steps
          /\ isoExit = {}
    /\ (Len(isoStarted) = 6 /\ ({ChrootKernel, ChrootInitrd} \ isoTrees[6] # {}
                                  \/ IsoImage \notin isoFs)) =>
          /\ isoFailed = "createISO"
          /\ isoPc = "exited"
          /\ isoExit = {1}

\* The build has completed.
C18_Witness ==
    /\ isoPc = "returned"
    /\ isoOut[Len(isoOut) - 1] = "Build completed successfully!"
    /\ IsoImage \in isoFs
    /\ IsoImage \in isoTrees[1]

(* C19: when step N >= 2 has thrown, every path that existed when step     *)
(* N - 1 returned still exists at the exit of the process, as does what    *)
(* step N wrote before it threw; no step has run twice and none after N.   *)
C19_NoCleanupAfterFailure ==
    (isoPc = "exited" /\ isoFailed # "setupBuildEnvironment") =>
        LET n == StepIndex(isoFailed)
        IN  /\ Len(isoTrees) = n
            /\ isoTrees[n] \subseteq isoFs
            /\ \A i \in 2..(n - 1) : isoTrees[i] \subseteq isoTrees[i + 1]
            /\ isoStarted = SubSeq(Steps, 1, n)
            /\ {BUILD_DIR, ISO_DIR, CHROOT_DIR, GrubDir, LiveDir} \subseteq isoFs

\* createISO has thrown after it wrote grub.cfg and the squashfs: both are
\* left, with the chroot that the earlier steps filled.
C19_Witness ==
    /\ isoPc = "exited"
    /\ isoFailed = "createISO"
    /\ {GrubCfg, SquashFs, ChrootKernel, ChrootOpt} \subseteq isoFs
    /\ IsoImage \notin isoFs

(***************************************************************************)
(*                               GET /logs                                 *)
(***************************************************************************)

\* What a log command may print.
LogTexts == {"", "Nov 02 boot ok", "kernel: oom"}

NoLogs == "No system logs available"

\* A command's outcome: whether it exits with status 0, and its stdout.
Outcomes == [ok : BOOLEAN, stdout : LogTexts]

NoReply == [status |-> 0, logs |-> ""]

LogsInit ==
    /\ journal \in Outcomes
    /\ syslog \in Outcomes
    /\ logsPc = "idle"
    /\ logsRan = <<>>
    /\ logsReply = NoReply

LogsOff ==
    /\ journal = [ok |-> FALSE, stdout |-> ""]
    /\ syslog = [ok |-> FALSE, stdout |-> ""]
    /\ logsPc = "off"
    /\ logsRan = <<>>
    /\ logsReply = NoReply

\* The handler up to its first await: execAsync('journalctl ...').
logsRequest ==
    /\ logsPc = "idle"
    /\ logsPc' = "journalctl"
    /\ logsRan' = Append(logsRan, "journalctl")
    /\ UNCHANGED <<journal, syslog, logsReply>>
    /\ Others("logs")

\* A handler that gives up after the journal: no fallback to the flat file.
journalctlNoFallback ==
    IF journal.ok
    THEN /\ logsReply' = [status |-> 200, logs |-> journal.stdout]
         /\ logsPc' = "done"
         /\ logsRan' = logsRan
    ELSE /\ logsReply' = [status |-> 200, logs |-> NoLogs]
         /\ logsPc' = "done"
         /\ logsRan' = logsRan

\* A handler without the inner try: a failing journalctl reaches the outer
\* catch.
journalctlSettledThrows ==
    IF journal.ok
    THEN /\ logsReply' = [status |-> 200, logs |-> journal.stdout]
         /\ logsPc' = "done"
         /\ logsRan' = logsRan
    ELSE /\ logsReply' = [status |-> 500, logs |-> "Failed to get system logs: "]
         /\ logsPc' = "done"
         /\ logsRan' = logsRan

\* The journalctl promise settles: return its stdout, or (catch) run tail.
journalctlSettled ==
    IF journal.ok
    THEN /\ logsReply' = [status |-> 200, logs |-> journal.stdout]
         /\ logsPc' = "done"
         /\ logsRan' = logsRan
    ELSE /\ logsReply' = logsReply
         /\ logsPc' = "tail"
         /\ logsRan' = Append(logsRan, "tail")

\* A handler whose innermost catch is missing: a failing tail ends the
\* request with the outer error.
tailSettledThrows ==
    /\ logsReply' = IF syslog.ok THEN [status |-> 200, logs |-> syslog.stdout]
                    ELSE [status |-> 500, logs |-> "Failed to get system logs: "]
    /\ logsPc' = "done"
    /\ logsRan' = logsRan

\* The tail promise settles: return its stdout, or (catch) the sentinel.
tailSettled ==
    /\ logsReply' = [status |-> 200,
                     logs |-> IF syslog.ok THEN syslog.stdout ELSE NoLogs]
    /\ logsPc' = "done"
    /\ logsRan' = logsRan

logsJournalctl ==
    /\ logsPc = "journalctl"
    /\ journalctlSettled
    /\ UNCHANGED <<journal, syslog>>
    /\ Others("logs")

logsTail ==
    /\ logsPc = "tail"
    /\ tailSettled
    /\ UNCHANGED <<journal, syslog>>
    /\ Others("logs")

LogsNext ==
    \/ logsRequest
    \/ logsJournalctl
    \/ logsTail

(* C2: the reply of GET /logs is the journal's output when journalctl      *)
(* succeeded, and tail was then never run; else the output of tail when    *)
(* tail succeeded; the sentinel only when both failed.  The reply is the   *)
(* output of one source, never of both.                                    *)
C2_FirstLogSourceWins ==
    logsPc = "done" =>
        /\ logsReply.status = 200
        /\ journal.ok =>
              logsReply.logs = journal.stdout /\ logsRan = <<"journalctl">>
        /\ ~journal.ok /\ syslog.ok =>
              logsReply.logs = syslog.stdout /\ logsRan = <<"journalctl", "tail">>
        /\ logsReply.logs = NoLogs <=> ~journal.ok /\ ~syslog.ok

C2_Witness ==
    /\ logsPc = "done"
    /\ ~journal.ok /\ syslog.ok
    /\ journal.stdout # syslog.stdout
    /\ logsReply.logs = syslog.stdout

(* C27: GET /logs never fails.  Whatever the two commands do, the handler   *)
(* goes on until it replies, the reply is a 200 with a logs string, and    *)
(* the error of the outer catch, 'Failed to get system logs', is never     *)
(* the answer.                                                             *)
C27_LogsNeverFails ==
    /\ logsReply.status \in {0, 200}
    /\ logsReply.logs \in LogTexts \cup {NoLogs}
    /\ logsReply # [status |-> 500, logs |-> "Failed to get system logs: "]
    /\ logsPc \in {"idle", "journalctl", "tail"} =>
          logsReply = NoReply /\ ENABLED LogsNext
    /\ logsPc = "done" => logsReply.status = 200

\* Both commands failed, the journal after printing something: the reply
\* is a 200 with the sentinel.
C27_Witness ==
    /\ logsPc = "done"
    /\ journal = [ok |-> FALSE, stdout |-> "kernel: oom"]
    /\ ~syslog.ok
    /\ logsRan = <<"journalctl", "tail">>
    /\ logsReply = [status |-> 200, logs |-> NoLogs]

(***************************************************************************)
(*                              formatBytes                                *)
(*                                                                         *)
(* A byte count does not fit TLC's integers, so a number is kept as its    *)
(* base-1024 digits, least significant first, with a scale: the value is   *)
(* the sum of digits[i] * 1024^(i - 1 - scale).  Dividing by 1024 moves    *)
(* the point one digit (exact in binary floating point), so the loop of    *)
(* formatBytes runs as in the code.  Byte counts are taken to be integers  *)
(* that a double holds exactly.                                            *)
(***************************************************************************)

Kilo == 1024

\* The number of base-1024 digits of a byte count.
MaxLimbs == 6

DigitSamples == {0, 1, 512, 1019, Kilo - 1}

ByteCounts == [1..MaxLimbs -> DigitSamples]

units == <<"B", "KB", "MB", "GB", "TB">>

Num(digits, scale) == [digits |-> digits, scale |-> scale]

\* The digit of weight 1024^e, for e >= -scale.
DigitAt(x, e) ==
    IF e + 1 + x.scale \in DOMAIN x.digits THEN x.digits[e + 1 + x.scale] ELSE 0

TopExp(x) == Len(x.digits) - 1 - x.scale

\* x >= 1024: a non-zero digit of weight 1024 or more.
Geq1024(x) == \E e \in 1..TopExp(x) : DigitAt(x, e) # 0

\* x > 1024.
Gt1024(x) ==
    \/ \E e \in 2..TopExp(x) : DigitAt(x, e) # 0
    \/ DigitAt(x, 1) > 1
    \/ DigitAt(x, 1) = 1 /\ \E e \in (0 - x.scale)..0 : DigitAt(x, e) # 0

\* size /= 1024
Div1024(x) == Num(x.digits, x.scale + 1)

\* The integer part of x.
RECURSIVE IntFrom(_, _)
IntFrom(x, e) ==
    IF e > TopExp(x) THEN 0 ELSE DigitAt(x, e) + Kilo * IntFrom(x, e + 1)

IntPart(x) == IntFrom(x, 0)

\* 100 times the fractional part of x, as <<integer part, the digit of
\* weight 1/1024 of what is left>>: the digits below the point times 100,
\* carried upwards from the least significant one.
RECURSIVE Frac100(_, _, _)
Frac100(x, e, carry) ==
    IF e = 0 THEN <<carry, 0>>
    ELSE LET v == 100 * DigitAt(x, e) + carry
         IN  IF e = -1 THEN <<v \div Kilo, v % Kilo>>
             ELSE Frac100(x, e + 1, v \div Kilo)

\* Number.prototype.toFixed(2) of x >= 0: the hundredths nearest to x, the
\* larger of the two when x is halfway, as <<integer part, hundredths>>.
Hundredths(x) ==
    LET f == Frac100(x, 0 - x.scale, 0)
        h == IF 2 * f[2] >= Kilo THEN f[1] + 1 ELSE f[1]
    IN  IF h = 100 THEN <<IntPart(x) + 1, 0>> ELSE <<IntPart(x), h>>

TwoDigits(h) == IF h < 10 THEN "0" \o ToString(h) ELSE ToString(h)

Fixed2(ih) == ToString(ih[1]) \o "." \o TwoDigits(ih[2])

\* A loop that also stops at exactly 1024.
KeepDividingStrict(size, unitIndex) == Gt1024(size) /\ unitIndex < Len(units) - 1

\* while (size >= 1024 && unitIndex < units.length - 1)
KeepDividing(size, unitIndex) == Geq1024(size) /\ unitIndex < Len(units) - 1

RECURSIVE FormatLoop(_, _)
FormatLoop(size, unitIndex) ==
    IF KeepDividing(size, unitIndex)
    THEN FormatLoop(Div1024(size), unitIndex + 1)
    ELSE [size |-> size, unitIndex |-> unitIndex]

\* formatBytes(bytes): the unit index and the scaled size the loop ends
\* with, and the string returned.
formatBytes(bytes) ==
    LET r == FormatLoop(Num(bytes, 0), 0)
    IN  [unitIndex |-> r.unitIndex,
         size |-> r.size,
         fixed |-> Hundredths(r.size),
         text |-> Fixed2(Hundredths(r.size)) \o units[r.unitIndex + 1]]

NoFormat ==
    [unitIndex |-> 0, size |-> Num(<<>>, 0), fixed |-> <<0, 0>>, text |-> ""]

BytesInit ==
    /\ fbBytes \in ByteCounts
    /\ fbPc = "call"
    /\ fbOut = NoFormat

BytesOff ==
    /\ fbBytes = <<>>
    /\ fbPc = "off"
    /\ fbOut = NoFormat

formatBytesCall ==
    /\ fbPc = "call"
    /\ fbOut' = formatBytes(fbBytes)
    /\ fbPc' = "done"
    /\ UNCHANGED fbBytes
    /\ Others("bytes")

BytesNext == formatBytesCall

\* bytes / 1024^j < 1024: no digit of bytes of weight 1024^(j+1) or more.
ScaledBelow1024(bytes, j) == \A i \in (j + 2)..Len(bytes) : bytes[i] = 0

(* C3 as stated: formatBytes chooses the largest unit of the ladder whose  *)
(* scaled value is below 1024 (TB when there is none).                     *)
C3_LargestUnitBelow1024 ==
    fbPc = "done" =>
        LET fits == {j \in 0..(Len(units) - 1) : ScaledBelow1024(fbBytes, j)}
        IN  /\ fits = {} => fbOut.unitIndex = Len(units) - 1
            /\ fits # {} => /\ fbOut.unitIndex \in fits
                            /\ \A j \in fits : j <= fbOut.unitIndex

(* C3, amended: formatBytes chooses the smallest unit of the ladder whose  *)
(* scaled value is below 1024; when there is none it chooses the top unit, *)
(* TB, and only there may the scaled value be 1024 or more.                *)
C3_SmallestUnitBelow1024 ==
    fbPc = "done" =>
        LET u == fbOut.unitIndex
        IN  /\ u \in 0..(Len(units) - 1)
            /\ fbOut.size = Num(fbBytes, u)
            /\ ScaledBelow1024(fbBytes, u) \/ u = Len(units) - 1
            /\ \A j \in 0..(u - 1) : ~ScaledBelow1024(fbBytes, j)

\* 1024^2 bytes: printed in MB, one below the top of the KB range.
C3_Witness ==
    /\ fbPc = "done"
    /\ fbBytes = [i \in 1..MaxLimbs |-> IF i = 3 THEN 1 ELSE 0]
    /\ fbOut.unitIndex = 2
    /\ fbOut.text = "1.00MB"

(* C26: for every byte count below 1024^5 the two-decimal number that      *)
(* formatBytes prints is strictly less than 1024.00.                       *)
C26_PrintedBelow1024 ==
    fbPc = "done" /\ ScaledBelow1024(fbBytes, Len(units) - 1) =>
        /\ fbOut.fixed[1] < Kilo
        /\ fbOut.text = Fixed2(fbOut.fixed) \o units[fbOut.unitIndex + 1]

\* 1024^2 - 1 bytes: 1023.999... KB, printed as 1024.00KB.
C26_Rounded1024 ==
    /\ fbPc = "done"
    /\ fbBytes = [i \in 1..Len(fbBytes) |-> IF i <= 2 THEN Kilo - 1 ELSE 0]
    /\ fbOut.text = "1024.00KB"

(***************************************************************************)
(*                           GET /docker/stats                             *)
(*                                                                         *)
(* A JavaScript number that comes out of a division is kept as an exact    *)
(* fraction num/den (den > 0), or as NaN, Infinity or -Infinity; the       *)
(* rounding error of floating-point arithmetic is not modelled.            *)
(***************************************************************************)

Finite(num, den) == [kind |-> "finite", num |-> num, den |-> den]
NaN == [kind |-> "NaN", num |-> 0, den |-> 1]
Infinity == [kind |-> "Infinity", num |-> 0, den |-> 1]
NegInfinity == [kind |-> "-Infinity", num |-> 0, den |-> 1]

Abs(n) == IF n < 0 THEN 0 - n ELSE n

\* a / b
Divide(a, b) ==
    IF b = 0
    THEN (IF a = 0 THEN NaN ELSE IF a > 0 THEN Infinity ELSE NegInfinity)
    ELSE IF b > 0 THEN Finite(a, b) ELSE Finite(0 - a, 0 - b)

\* x * n, n an integer
Times(x, n) ==
    CASE x.kind = "finite" -> Finite(x.num * n, x.den)
      [] x.kind = "NaN" -> NaN
      [] n = 0 -> NaN
      [] (x.kind = "Infinity") = (n > 0) -> Infinity
      [] OTHER -> NegInfinity

\* Number.prototype.toFixed(2)
toFixed2(x) ==
    CASE x.kind = "finite" ->
            LET q == (200 * Abs(x.num) + x.den) \div (2 * x.den)
            IN  (IF x.num < 0 THEN "-" ELSE "") \o Fixed2(<<q \div 100, q % 100>>)
      [] OTHER -> x.kind

\* An optional member of a sample: the empty set when it is missing.
Missing == {}
Given(v) == {v}

\* The counters of one stats sample.
TotalUsages == {100, 300}
SystemUsages == {100, 1100}
OnlineCpus == {1, 4}
MemoryUsages == {1536}
MemoryLimits == {4096}

\* stats.networks: per interface its counters, in the order of the object's
\* keys; missing when the container has no network.
MaxInterfaces == 2
Interfaces == [rx_bytes : {0, 1024}, tx_bytes : {512, 2048}]
Networks ==
    {Missing} \cup {Given(n) : n \in UNION {[1..k -> Interfaces] : k \in 0..MaxInterfaces}}
TypicalNetworks == {Missing, Given(<<[rx_bytes |-> 1024, tx_bytes |-> 512]>>)}

\* stats.blkio_stats.io_service_bytes_recursive: per device one entry for
\* each operation; missing when either member is.
MaxBlkioEntries == 3
BlkioEntries == [op : {"Read", "Write", "Total"}, value : {512, 2048}]
BlkioLists ==
    {Missing} \cup {Given(l) : l \in UNION {[1..k -> BlkioEntries] : k \in 0..MaxBlkioEntries}}
TypicalBlkioLists ==
    {Missing, Given(<<[op |-> "Read", value |-> 2048], [op |-> "Write", value |-> 512]>>)}

\* The samples of the CPU cases.
StatsSamples ==
    [cpu_total : TotalUsages, cpu_system : SystemUsages, online_cpus : OnlineCpus,
     precpu_total : TotalUsages, precpu_system : SystemUsages,
     memory_usage : MemoryUsages, memory_limit : MemoryLimits,
     networks : {Missing}, io_service_bytes_recursive : {Missing}]

\* The samples of the I/O cases: one of networks and block I/O is any value,
\* the other a typical one.
IoSamples ==
    [cpu_total : {300}, cpu_system : {1100}, online_cpus : {4},
     precpu_total : {100}, precpu_system : {100},
     memory_usage : MemoryUsages \cup {0}, memory_limit : MemoryLimits,
     networks : Networks, io_service_bytes_recursive : TypicalBlkioLists]
    \cup
    [cpu_total : {300}, cpu_system : {1100}, online_cpus : {4},
     precpu_total : {100}, precpu_system : {100},
     memory_usage : MemoryUsages, memory_limit : MemoryLimits \cup {0},
     networks : TypicalNetworks, io_service_bytes_recursive : BlkioLists]

\* A byte count as the base-1024 digits that formatBytes is given.
RECURSIVE ToLimbs(_)
ToLimbs(n) == IF n < Kilo THEN <<n>> ELSE <<n % Kilo>> \o ToLimbs(n \div Kilo)

\* `${formatBytes(used)} / ${formatBytes(limit)} (${percent}%)`
formatMemoryUsage(stats) ==
    LET used == stats.memory_usage
        limit == stats.memory_limit
        percent == toFixed2(Times(Divide(used, limit), 100))
    IN  formatBytes(ToLimbs(used)).text \o " / " \o formatBytes(ToLimbs(limit)).text
            \o " (" \o percent \o "%)"

\* Object.values(stats.networks || {})
NetworkValues(stats) ==
    IF stats.networks = Missing THEN <<>> ELSE CHOOSE n \in stats.networks : TRUE

\* values.reduce((acc, net) => acc + net[field], 0)
RECURSIVE ReduceSum(_, _, _)
ReduceSum(values, field, acc) ==
    IF values = <<>> THEN acc
    ELSE ReduceSum(Tail(values), field, acc + Head(values)[field])

\* `\u2193${formatBytes(rx)} / \u2191${formatBytes(tx)}`
IoText(down, up) ==
    "↓" \o formatBytes(ToLimbs(down)).text \o " / ↑" \o formatBytes(ToLimbs(up)).text

\* Network I/O of the first interface only.
formatNetworkIOFirst(stats) ==
    LET all == NetworkValues(stats)
        values == IF all = <<>> THEN <<>> ELSE <<Head(all)>>
    IN  IoText(ReduceSum(values, "rx_bytes", 0), ReduceSum(values, "tx_bytes", 0))

formatNetworkIO(stats) ==
    LET rx == ReduceSum(NetworkValues(stats), "rx_bytes", 0)
        tx == ReduceSum(NetworkValues(stats), "tx_bytes", 0)
    IN  IoText(rx, tx)

\* list?.find(s => s.op === op)?.value || 0: the value of the first entry
\* with this op, 0 when the list is missing or has no such entry.
FindValue(list, op) ==
    LET entries == IF list = Missing THEN <<>> ELSE CHOOSE l \in list : TRUE
        hits == {i \in DOMAIN entries : entries[i].op = op}
    IN  IF hits = {} THEN 0
        ELSE entries[CHOOSE i \in hits : \A j \in hits : i <= j].value

formatBlockIO(stats) ==
    LET read == FindValue(stats.io_service_bytes_recursive, "Read")
        write == FindValue(stats.io_service_bytes_recursive, "Write")
    IN  IoText(read, write)

\* The most containers the Docker daemon lists.
MaxContainers == 2

\* containerInfo.Names[0] of the i-th container, as characters.
ContainerName(i) == <<"/", "c", ToString(i)>>

\* String.prototype.replace('/', ''): the first "/" is dropped.
RECURSIVE DropFirstSlash(_)
DropFirstSlash(name) ==
    IF name = <<>> THEN <<>>
    ELSE IF Head(name) = "/" THEN Tail(name)
    ELSE <<Head(name)>> \o DropFirstSlash(Tail(name))

\* A percentage that leaves out the number of CPUs.
calculateCPUPercentageOneCpu(stats) ==
    Times(Divide(stats.cpu_total - stats.precpu_total,
                 stats.cpu_system - stats.precpu_system), 100)

\* A percentage guarded against systemDelta = 0.
calculateCPUPercentageGuarded(stats) ==
    LET cpuDelta == stats.cpu_total - stats.precpu_total
        systemDelta == stats.cpu_system - stats.precpu_system
        cpuCount == stats.online_cpus
    IN  IF systemDelta = 0 THEN Finite(0, 1)
        ELSE Times(Times(Divide(cpuDelta, systemDelta), cpuCount), 100)

calculateCPUPercentage(stats) ==
    LET cpuDelta == stats.cpu_total - stats.precpu_total
        systemDelta == stats.cpu_system - stats.precpu_system
        cpuCount == stats.online_cpus
    IN  Times(Times(Divide(cpuDelta, systemDelta), cpuCount), 100)

\* The entry the handler builds for one container from its sample.
StatsEntry(i, stats) ==
    [name |-> DropFirstSlash(ContainerName(i)),
     cpu |-> toFixed2(calculateCPUPercentage(stats)) \o "%",
     memory |-> formatMemoryUsage(stats),
     network |-> formatNetworkIO(stats),
     disk |-> formatBlockIO(stats)]

Pending == [name |-> <<>>, cpu |-> "", memory |-> "", network |-> "", disk |-> ""]


NoStats == [status |-> 0, stats |-> <<>>, error |-> ""]

StatsInit ==
    /\ dsSamples \in UNION {[1..n -> StatsSamples] : n \in 0..MaxContainers}
    /\ dsPc = "idle"
    /\ dsEntries = <<>>
    /\ dsReply = NoStats
    /\ dsLogged = <<>>

\* One running container, with a sample of the I/O cases.
StatsIoInit ==
    /\ dsSamples \in {<<stats>> : stats \in IoSamples}
    /\ dsPc = "idle"
    /\ dsEntries = <<>>
    /\ dsReply = NoStats
    /\ dsLogged = <<>>

StatsOff ==
    /\ dsSamples = <<>>
    /\ dsPc = "off"
    /\ dsEntries = <<>>
    /\ dsReply = NoStats
    /\ dsLogged = <<>>

\* The messages of the errors a call of the Docker API may reject with; ""
\* stands for a call that is fulfilled.
DockerErrors == {"", "connect ENOENT /var/run/docker.sock", "socket hang up"}

\* catch (error): the error is logged and a fixed one is thrown.
StatsFailed == [status |-> 500, stats |-> <<>>, error |-> "Failed to fetch Docker stats"]

\* The handler up to its first await: docker.listContainers().
statsRequest ==
    /\ dsPc = "idle"
    /\ dsPc' = "listing"
    /\ UNCHANGED <<dsSamples, dsEntries, dsReply, dsLogged>>
    /\ Others("stats")

\* listContainers settles: on success every container's stats call is made
\* (Promise.all over the mapped async functions); with no container the
\* reply is ready at once.
statsListed ==
    /\ dsPc = "listing"
    /\ \E err \in DockerErrors :
          IF err # ""
          THEN /\ dsPc' = "done" /\ dsReply' = StatsFailed /\ dsEntries' = dsEntries
               /\ dsLogged' = Append(dsLogged, err)
          ELSE /\ dsLogged' = dsLogged
               /\ dsEntries' = [i \in 1..Len(dsSamples) |-> Pending]
               /\ IF Len(dsSamples) = 0
                  THEN dsPc' = "done" /\ dsReply' = [NoStats EXCEPT !.status = 200]
                  ELSE dsPc' = "stats" /\ dsReply' = dsReply
    /\ UNCHANGED dsSamples
    /\ Others("stats")

\* container.stats() of container i settles.  Fulfilled: the entry is built,
\* and the reply is sent when it was the last one.  Rejected: Promise.all
\* rejects and the catch block answers.
statsSampled(i) ==
    /\ dsPc = "stats"
    /\ i \in 1..Len(dsSamples)
    /\ dsEntries[i] = Pending
    /\ \E err \in DockerErrors :
          IF err # ""
          THEN /\ dsPc' = "done" /\ dsReply' = StatsFailed /\ dsEntries' = dsEntries
               /\ dsLogged' = Append(dsLogged, err)
          ELSE LET entries == [dsEntries EXCEPT ![i] = StatsEntry(i, dsSamples[i])]
               IN  /\ dsLogged' = dsLogged
                   /\ dsEntries' = entries
                   /\ IF \A j \in 1..Len(entries) : entries[j] # Pending
                      THEN /\ dsPc' = "done"
                           /\ dsReply' = [status |-> 200, stats |-> entries, error |-> ""]
                      ELSE dsPc' = dsPc /\ dsReply' = dsReply
    /\ UNCHANGED dsSamples
    /\ Others("stats")

StatsNext ==
    \/ statsRequest
    \/ statsListed
    \/ \E i \in 1..MaxContainers : statsSampled(i)

(* C4: for every sample with systemDelta > 0 the cpu field of its entry in *)
(* the reply is (cpuDelta / systemDelta) * onlineCPUs * 100, the deltas    *)
(* being cpu_stats minus precpu_stats of that sample, printed as the       *)
(* nearest number with two decimals (the sign first) and a "%".            *)
C4_CpuPercentage ==
    dsReply.status = 200 =>
        \A i \in 1..Len(dsSamples) :
            LET st == dsSamples[i]
                cpuDelta == st.cpu_total - st.precpu_total
                systemDelta == st.cpu_system - st.precpu_system
                v == cpuDelta * st.online_cpus * 100
            IN  systemDelta > 0 =>
                  \E q \in 0..((100 * Abs(v)) \div systemDelta + 1) :
                     /\ (2 * q - 1) * systemDelta <= 200 * Abs(v)
                     /\ 200 * Abs(v) < (2 * q + 1) * systemDelta
                     /\ dsReply.stats[i].cpu =
                           (IF v < 0 THEN "-" ELSE "") \o ToString(q \div 100) \o "."
                           \o (IF q % 100 < 10 THEN "0" ELSE "") \o ToString(q % 100)
                           \o "%"

\* cpuDelta = 200, systemDelta = 1000, 4 CPUs: "80.00%".
C4_Witness ==
    /\ dsReply.status = 200
    /\ \E i \in 1..Len(dsSamples) :
          /\ dsSamples[i].cpu_total - dsSamples[i].precpu_total = 200
          /\ dsSamples[i].cpu_system - dsSamples[i].precpu_system = 1000
          /\ dsSamples[i].online_cpus = 4
          /\ dsReply.stats[i].cpu = "80.00%"

(* C28: calculateCPUPercentage has no guard for systemDelta = 0.  For a     *)
(* sample whose two system_cpu_usage counters are equal the cpu field of   *)
(* its entry is 'NaN%' (cpuDelta = 0), 'Infinity%' (cpuDelta > 0) or       *)
(* '-Infinity%' (cpuDelta < 0), never a finite percentage, and the request *)
(* succeeds all the same: it fails only when a Docker call does.           *)
C28_ZeroSystemDeltaNotFinite ==
    /\ \A i \in 1..Len(dsEntries) :
          LET st == dsSamples[i]
              cpuDelta == st.cpu_total - st.precpu_total
          IN  dsEntries[i] # Pending /\ st.cpu_system = st.precpu_system =>
                 dsEntries[i].cpu = (IF cpuDelta = 0 THEN "NaN%"
                                     ELSE IF cpuDelta > 0 THEN "Infinity%"
                                     ELSE "-Infinity%")
    /\ dsReply.status = 200 => dsReply.stats = dsEntries /\ dsLogged = <<>>
    /\ dsReply.status \notin {0, 200} =>
          /\ dsReply = StatsFailed
          /\ Len(dsLogged) = 1
          /\ dsLogged[1] \in DockerErrors \ {""}
    /\ dsPc = "done" /\ dsLogged = <<>> => dsReply.status = 200

\* Two containers whose system counters did not move, one with cpuDelta = 0
\* and one with cpuDelta > 0: a 200 with 'NaN%' and 'Infinity%'.
C28_Witness ==
    /\ dsReply.status = 200
    /\ Len(dsSamples) = 2
    /\ \A i \in 1..2 : dsSamples[i].cpu_system = dsSamples[i].precpu_system
    /\ dsReply.stats[1].cpu = "NaN%"
    /\ dsReply.stats[2].cpu = "Infinity%"

\* The sum of f[i] over the indices i of S.
RECURSIVE SumOver(_, _)
SumOver(f, S) ==
    IF S = {} THEN 0
    ELSE LET i == CHOOSE k \in S : TRUE IN f[i] + SumOver(f, S \ {i})

(* C12: the disk field of an entry reports, for reading, the sum of the    *)
(* values of all entries of io_service_bytes_recursive with op 'Read' and, *)
(* for writing, the sum of the values of all entries with op 'Write'.      *)
C12_BlockIoSummed ==
    dsReply.status = 200 =>
        \A i \in 1..Len(dsSamples) :
            LET list == dsSamples[i].io_service_bytes_recursive
                entries == IF list = Missing THEN <<>> ELSE CHOOSE l \in list : TRUE
                values == [k \in DOMAIN entries |-> entries[k].value]
                read == SumOver(values, {k \in DOMAIN entries : entries[k].op = "Read"})
                write == SumOver(values, {k \in DOMAIN entries : entries[k].op = "Write"})
            IN  dsReply.stats[i].disk =
                    "↓" \o formatBytes(ToLimbs(read)).text \o " / ↑"
                        \o formatBytes(ToLimbs(write)).text

(* C13: the network field of an entry reports the sum of rx_bytes and the  *)
(* sum of tx_bytes over every interface of stats.networks, and 0 for both  *)
(* when networks is missing or empty.                                      *)
C13_NetworkIoSummed ==
    dsReply.status = 200 =>
        \A i \in 1..Len(dsSamples) :
            LET networks == dsSamples[i].networks
                values == IF networks = Missing THEN <<>> ELSE CHOOSE n \in networks : TRUE
                rx == SumOver([k \in DOMAIN values |-> values[k].rx_bytes], DOMAIN values)
                tx == SumOver([k \in DOMAIN values |-> values[k].tx_bytes], DOMAIN values)
            IN  /\ dsReply.stats[i].network =
                      "↓" \o formatBytes(ToLimbs(rx)).text \o " / ↑"
                          \o formatBytes(ToLimbs(tx)).text
                /\ values = <<>> => dsReply.stats[i].network = "↓0.00B / ↑0.00B"

\* Two interfaces, 1024 bytes received on each, 512 and 2048 bytes sent.
C13_Witness ==
    /\ dsReply.status = 200
    /\ Len(dsSamples) = 1
    /\ dsSamples[1].networks =
          Given(<<[rx_bytes |-> 1024, tx_bytes |-> 512], [rx_bytes |-> 1024, tx_bytes |-> 2048]>>)
    /\ dsReply.stats[1].network = "↓2.00KB / ↑2.50KB"

(***************************************************************************)
(*                               GET /info                                 *)
(***************************************************************************)

\* request.query.detailed: absent, a string, or (a repeated parameter) an
\* array of strings.
QueryValues ==
    {[type |-> "undefined", value |-> ""], [type |-> "array", value |-> "true"]}
    \cup [type : {"string"}, value : {"true", "false", "TRUE", "1", ""}]

\* z.string().optional(): an array is rejected (the parse throws).
SchemaAccepts(q) == q.type \in {"undefined", "string"}

\* A transform that compares without regard to case.
ParseFlagAnyCase(q) == q.type = "string" /\ q.value \in {"true", "TRUE"}

\* .transform((val) => val === 'true').pipe(z.boolean().optional().default(false))
ParseFlag(q) == q.type = "string" /\ q.value = "true"

BasicQueries == {"cpu", "mem", "osInfo", "system"}
DetailedQueries == {"currentLoad", "services", "dockerInfo"}

\* The response body: each key with the query its value was read from.
basicInfo ==
    [k \in {"hostname", "platform", "distro", "release", "arch", "uptime"}
        |-> "osInfo"]
    @@ ("cpu" :> "cpu") @@ ("memory" :> "mem")

detailedInfo ==
    basicInfo @@ ("system" :> "system") @@ ("load" :> "currentLoad")
    @@ ("services" :> "services") @@ ("docker" :> "dockerInfo")

NoBody == [k \in {} |-> ""]

NoInfo == [status |-> 0, body |-> NoBody]

InfoInit ==
    /\ inQuery \in QueryValues
    /\ inDetailed = FALSE
    /\ inPc = "idle"
    /\ inIssued = {}
    /\ inResolved = {}
    /\ inRejected = {}
    /\ inReply = NoInfo

InfoOff ==
    /\ inQuery = [type |-> "undefined", value |-> ""]
    /\ inDetailed = FALSE
    /\ inPc = "off"
    /\ inIssued = {}
    /\ inResolved = {}
    /\ inRejected = {}
    /\ inReply = NoInfo

\* A handler that asks for everything in one batch.
FirstBatchAll(detailed) ==
    IF detailed THEN BasicQueries \cup DetailedQueries ELSE BasicQueries

\* The first Promise.all: si.cpu(), si.mem(), si.osInfo(), si.system().
FirstBatch(detailed) == BasicQueries

\* The handler up to its first await: the query is parsed (a throw of the
\* parse fails the request) and the basic queries are issued together.
infoRequest ==
    /\ inPc = "idle"
    /\ IF SchemaAccepts(inQuery)
       THEN /\ inDetailed' = ParseFlag(inQuery)
            /\ inIssued' = FirstBatch(ParseFlag(inQuery))
            /\ inPc' = "basic"
            /\ inReply' = inReply
       ELSE /\ inDetailed' = inDetailed
            /\ inIssued' = inIssued
            /\ inPc' = "done"
            /\ inReply' = [status |-> 500, body |-> NoBody]
    /\ UNCHANGED <<inQuery, inResolved, inRejected>>
    /\ Others("info")

\* A handler that returns every key whatever the flag.
InfoBodyAlways(detailed) == detailedInfo

\* The body returned once every awaited query has resolved.
InfoBody(detailed) == IF detailed THEN detailedInfo ELSE basicInfo

\* A query resolves.  When it completes the batch the handler awaits, the
\* handler goes on: after the basic batch it returns basicInfo, or issues the
\* three detailed queries together; after the detailed batch it returns.
infoResolved(q) ==
    LET resolved == inResolved \cup {q}
    IN  /\ inResolved' = resolved
        /\ inRejected' = inRejected
        /\ CASE inPc = "basic" /\ BasicQueries \subseteq resolved /\ inDetailed ->
                  /\ inPc' = "detailed"
                  /\ inIssued' = inIssued \cup DetailedQueries
                  /\ inReply' = inReply
             [] inPc = "basic" /\ BasicQueries \subseteq resolved /\ ~inDetailed ->
                  /\ inPc' = "done"
                  /\ inIssued' = inIssued
                  /\ inReply' = [status |-> 200, body |-> InfoBody(inDetailed)]
             [] inPc = "detailed" /\ DetailedQueries \subseteq resolved ->
                  /\ inPc' = "done"
                  /\ inIssued' = inIssued
                  /\ inReply' = [status |-> 200, body |-> InfoBody(inDetailed)]
             [] OTHER -> UNCHANGED <<inPc, inIssued, inReply>>

\* A handler that guards each query: a rejected one counts as settled and
\* its keys are left out of the body.
infoRejectedGuarded(q) ==
    /\ inRejected' = inRejected \cup {q}
    /\ inResolved' = inResolved
    /\ IF inPc = "detailed" /\ DetailedQueries \subseteq (inResolved \cup inRejected \cup {q})
       THEN /\ inPc' = "done"
            /\ inReply' = [status |-> 200,
                           body |-> [k \in {k \in DOMAIN detailedInfo :
                                              detailedInfo[k] \notin inRejected \cup {q}}
                                        |-> detailedInfo[k]]]
       ELSE UNCHANGED <<inPc, inReply>>
    /\ inIssued' = inIssued

\* A query rejects.  The Promise.all the handler awaits rejects with it, the
\* handler throws (it has no try/catch) and the request fails; a rejection
\* after the reply has no effect.
infoRejected(q) ==
    /\ inRejected' = inRejected \cup {q}
    /\ inResolved' = inResolved
    /\ inIssued' = inIssued
    /\ IF inPc \in {"basic", "detailed"}
       THEN inPc' = "done" /\ inReply' = [status |-> 500, body |-> NoBody]
       ELSE UNCHANGED <<inPc, inReply>>

infoQueryResolves ==
    /\ \E q \in inIssued \ (inResolved \cup inRejected) : infoResolved(q)
    /\ UNCHANGED <<inQuery, inDetailed>>
    /\ Others("info")

infoQueryRejects ==
    /\ \E q \in inIssued \ (inResolved \cup inRejected) : infoRejected(q)
    /\ UNCHANGED <<inQuery, inDetailed>>
    /\ Others("info")

InfoNext ==
    \/ infoRequest
    \/ infoQueryResolves
    \/ infoQueryRejects

InfoDetailedKeys == {"system", "load", "services", "docker"}

(* C5: a successful reply to detailed=false has none of the keys system,   *)
(* load, services, docker; a successful reply to detailed=true has all     *)
(* four, and every key of the basic reply with the same value.             *)
C5_DetailedKeys ==
    inReply.status = 200 =>
        /\ ~ParseFlag(inQuery) =>
              /\ DOMAIN inReply.body \cap InfoDetailedKeys = {}
              /\ inReply.body = basicInfo
        /\ ParseFlag(inQuery) =>
              /\ InfoDetailedKeys \subseteq DOMAIN inReply.body
              /\ \A k \in DOMAIN basicInfo :
                    k \in DOMAIN inReply.body /\ inReply.body[k] = basicInfo[k]

C5_Witness ==
    /\ inReply.status = 200
    /\ inQuery = [type |-> "string", value |-> "true"]
    /\ DOMAIN inReply.body = DOMAIN basicInfo \cup InfoDetailedKeys

(* C7: with detailed=true, once one of the three detailed queries has      *)
(* rejected, the request has failed with an error and the reply carries no *)
(* field, basic or detailed.                                               *)
C7_NoPartialResult ==
    inDetailed /\ inRejected \cap DetailedQueries # {} =>
        /\ inPc = "done"
        /\ inReply.status = 500
        /\ DOMAIN inReply.body = {}

\* services rejected after the two others had resolved.
C7_Witness ==
    /\ inRejected = {"services"}
    /\ inResolved = BasicQueries \cup {"currentLoad", "dockerInfo"}
    /\ inReply.status = 500

(* C8: with detailed=false none of the load, services and Docker queries   *)
(* is ever issued; with detailed=true the three are issued together, and   *)
(* only when cpu, mem, osInfo and system have all resolved; a successful   *)
(* reply to detailed=true is produced only when all three have resolved.   *)
C8_DetailedQueriesAfterBasic ==
    /\ ~ParseFlag(inQuery) => inIssued \cap DetailedQueries = {}
    /\ inIssued \cap DetailedQueries # {} =>
          /\ ParseFlag(inQuery)
          /\ DetailedQueries \subseteq inIssued
          /\ BasicQueries \subseteq inResolved
    /\ inReply.status = 200 /\ ParseFlag(inQuery) =>
          DetailedQueries \subseteq inResolved

C8_Witness ==
    /\ inPc = "detailed"
    /\ inIssued = BasicQueries \cup DetailedQueries
    /\ inResolved = BasicQueries \cup {"services"}
    /\ inReply = NoInfo

(***************************************************************************)
(*                        POST /docker/containers                          *)
(***************************************************************************)

\* The longest ports list of a request.
MaxPorts == 2

ContainerPorts == {80, 443}
HostPorts == {8080, 9090}

\* One entry of body.ports as the control panel sends it; containerSchema
\* keeps container and host and strips the protocol.
PortEntries == [container : ContainerPorts, host : HostPorts, protocol : {"tcp", "udp"}]

\* An optional member of an object: the empty set when it is undefined,
\* else the set of its one value.
Absent == {}
Present(v) == {v}
IsPresent(o) == o # {}
ValueOf(o) == CHOOSE v \in o : TRUE

PortLists == UNION {[1..n -> PortEntries] : n \in 0..MaxPorts}

Bodies ==
    [ports : {Absent} \cup {Present(l) : l \in PortLists},
     volumes : {Absent, Present(<<[container |-> "/srv", host |-> "/data"]>>)},
     restart : {Absent, Present("always")}]

\* `${container}/tcp`
PortStr(entry) == ToString(entry.container) \o "/tcp"

EmptyMap == [k \in {} |-> <<>>]

\* ports?.forEach(...): each entry assigns exposedPorts[portStr] and
\* portBindings[portStr], replacing what an earlier entry assigned there.
RECURSIVE PortMaps(_, _)
PortMaps(ports, maps) ==
    IF ports = <<>> THEN maps
    ELSE LET portStr == PortStr(Head(ports))
         IN  PortMaps(Tail(ports),
                [exposedPorts |-> (portStr :> EmptyMap) @@ maps.exposedPorts,
                 portBindings |->
                    (portStr :> <<[HostPort |-> ToString(Head(ports).host)]>>)
                    @@ maps.portBindings])

\* The argument of docker.createContainer (Image, name and Env are passed on
\* as received and are left out).
CreateOptions(body) ==
    LET maps == PortMaps(IF IsPresent(body.ports) THEN ValueOf(body.ports) ELSE <<>>,
                         [exposedPorts |-> EmptyMap, portBindings |-> EmptyMap])
    IN  [ExposedPorts |-> maps.exposedPorts,
         PortBindings |-> maps.portBindings,
         Binds |-> IF IsPresent(body.volumes)
                   THEN Present([i \in DOMAIN ValueOf(body.volumes) |->
                                   ValueOf(body.volumes)[i].host \o ":"
                                   \o ValueOf(body.volumes)[i].container])
                   ELSE Absent,
         RestartPolicy |-> IF IsPresent(body.restart)
                           THEN Present([Name |-> ValueOf(body.restart)])
                           ELSE Absent]

NoOptions ==
    [ExposedPorts |-> EmptyMap, PortBindings |-> EmptyMap,
     Binds |-> Absent, RestartPolicy |-> Absent]

CreateInit ==
    /\ ccBody \in Bodies
    /\ ccPc = "idle"
    /\ ccCalls = <<>>
    /\ ccOptions = NoOptions
    /\ ccExists = FALSE
    /\ ccReply = 0

CreateOff ==
    /\ ccBody = [ports |-> Absent, volumes |-> Absent, restart |-> Absent]
    /\ ccPc = "off"
    /\ ccCalls = <<>>
    /\ ccOptions = NoOptions
    /\ ccExists = FALSE
    /\ ccReply = 0

\* The handler up to its first await: docker.createContainer(options).
createRequest ==
    /\ ccPc = "idle"
    /\ ccOptions' = CreateOptions(ccBody)
    /\ ccCalls' = Append(ccCalls, "createContainer")
    /\ ccPc' = "createContainer"
    /\ UNCHANGED <<ccBody, ccExists, ccReply>>
    /\ Others("create")

\* createContainer settles: container.start() is called, or the handler
\* throws.
createSettled ==
    /\ ccPc = "createContainer"
    /\ \E ok \in BOOLEAN :
          IF ok
          THEN /\ ccExists' = TRUE
               /\ ccCalls' = Append(ccCalls, "start")
               /\ ccPc' = "start"
               /\ ccReply' = ccReply
          ELSE /\ ccPc' = "done"
               /\ ccReply' = 500
               /\ UNCHANGED <<ccExists, ccCalls>>
    /\ UNCHANGED <<ccBody, ccOptions>>
    /\ Others("create")

\* A handler that removes the container it created when start fails.
startSettledCompensating ==
    /\ ccPc = "start"
    /\ \E ok \in BOOLEAN :
          IF ok
          THEN /\ ccCalls' = Append(ccCalls, "inspect")
               /\ ccPc' = "inspect"
               /\ ccReply' = ccReply
               /\ ccExists' = ccExists
          ELSE /\ ccPc' = "done"
               /\ ccReply' = 500
               /\ ccCalls' = Append(ccCalls, "remove")
               /\ ccExists' = FALSE
    /\ UNCHANGED <<ccBody, ccOptions>>
    /\ Others("create")

\* start settles: container.inspect() is called, or the handler throws.
startSettled ==
    /\ ccPc = "start"
    /\ \E ok \in BOOLEAN :
          IF ok
          THEN /\ ccCalls' = Append(ccCalls, "inspect")
               /\ ccPc' = "inspect"
               /\ ccReply' = ccReply
          ELSE /\ ccPc' = "done"
               /\ ccReply' = 500
               /\ ccCalls' = ccCalls
    /\ UNCHANGED <<ccBody, ccOptions, ccExists>>
    /\ Others("create")

\* inspect settles: its result is the reply, or the handler throws.
inspectSettled ==
    /\ ccPc = "inspect"
    /\ \E ok \in BOOLEAN : ccReply' = IF ok THEN 200 ELSE 500
    /\ ccPc' = "done"
    /\ UNCHANGED <<ccBody, ccOptions, ccExists, ccCalls>>
    /\ Others("create")

CreateNext ==
    \/ createRequest
    \/ createSettled
    \/ startSettled
    \/ inspectSettled

(* C6: in the options passed to createContainer, every entry {container:   *)
(* c, host: h} of the ports list has ExposedPorts['c/tcp'] = {} and        *)
(* PortBindings['c/tcp'] = [{HostPort: string(h)}]; the keys are those of  *)
(* the entries, all with the suffix /tcp; with no ports both are empty.    *)
C6_EveryPortEntryBound ==
    ccPc # "idle" =>
        LET ports == IF IsPresent(ccBody.ports) THEN ValueOf(ccBody.ports) ELSE <<>>
            keys == {ToString(ports[i].container) \o "/tcp" : i \in DOMAIN ports}
        IN  /\ DOMAIN ccOptions.ExposedPorts = keys
            /\ DOMAIN ccOptions.PortBindings = keys
            /\ \A i \in DOMAIN ports :
                  LET key == ToString(ports[i].container) \o "/tcp"
                  IN  /\ ccOptions.ExposedPorts[key] = EmptyMap
                      /\ ccOptions.PortBindings[key] =
                            <<[HostPort |-> ToString(ports[i].host)]>>

(* C16: the Docker calls of POST /docker/containers are createContainer,  *)
(* start, inspect, in that order, each made only after the one before was  *)
(* fulfilled; the request succeeds only after all three.  When             *)
(* createContainer fails nothing else is called; when start fails inspect  *)
(* is not called, nothing removes the container, and it stays created.     *)
C16_CreateStartInspectOrAbort ==
    /\ \E n \in 0..3 : ccCalls = SubSeq(<<"createContainer", "start", "inspect">>, 1, n)
    /\ ccExists <=> Len(ccCalls) >= 2
    /\ ccReply = 200 => ccPc = "done" /\ Len(ccCalls) = 3
    /\ ccReply = 500 => ccPc = "done"
    /\ ccPc = "done" => ccReply \in {200, 500}
    /\ (ccPc \in {"idle", "off"}) = (ccCalls = <<>>)
    /\ ccPc \in {"createContainer", "start", "inspect"} =>
          ccReply = 0 /\ ccCalls[Len(ccCalls)] = ccPc

\* start has failed: the request is over and the container exists.
C16_Witness ==
    /\ ccPc = "done"
    /\ ccReply = 500
    /\ ccCalls = <<"createContainer", "start">>
    /\ ccExists

(***************************************************************************)
(*            POST /performance (system.ts, lines 147-219)                 *)
(***************************************************************************)

\* The clients whose requests may be in flight together.
Requests == {"r1", "r2"}

\* The two temporary files of the handler.
TestFile == "/tmp/testfile"
MemFile == "/tmp/test"
PerfPaths == {TestFile, MemFile}

\* The arguments of `rm -f`.
rmPathsOnlyTestfile == {TestFile}

rmPaths == {TestFile, MemFile}

\* The asynchronous measurements of each phase; the single-core loop and the
\* latency measurement run synchronously while their Promise.all is built.
CpuQueries == {"currentLoad", "avgLoad"}
MemCommands == {"memRead", "memWrite"}
DiskCommands == {"diskWrite", "diskRead", "fio"}
SpeedCommands == {"memRead", "memWrite", "diskWrite", "diskRead"}
PerfCommands == CpuQueries \cup MemCommands \cup DiskCommands \cup {"rm"}

\* A handler whose memory phase awaits the read alone.
BatchReadOnly(pc) ==
    CASE pc = "cpu" -> CpuQueries
      [] pc = "mem" -> {"memRead"}
      [] pc = "disk" -> DiskCommands
      [] pc = "cleanup" -> {"rm"}
      [] OTHER -> {}

\* What the handler awaits in each phase.
Batch(pc) ==
    CASE pc = "cpu" -> CpuQueries
      [] pc = "mem" -> MemCommands
      [] pc = "disk" -> DiskCommands
      [] pc = "cleanup" -> {"rm"}
      [] OTHER -> {}

\* A command's stdout is a sequence of pieces of text: a digit, a dot, the
\* text " GB/s", or text with none of these in it.
Digits == {"1", "5"}
Pieces == Digits \cup {".", " GB/s", "copied, "}
MaxOut == 3
Stdouts == UNION {[1..n -> Pieces] : n \in 0..MaxOut}

DigitValue(c) == IF c = "1" THEN 1 ELSE IF c = "5" THEN 5 ELSE 0

\* The character class [0-9.]
InClass(c) == c \in Digits \cup {"0", "."}

\* The last position of the run of [0-9.] that holds position i.
RECURSIVE RunEnd(_, _)
RunEnd(s, i) ==
    IF i < Len(s) /\ InClass(s[i + 1]) THEN RunEnd(s, i + 1) ELSE i

\* /([0-9.]+) GB\/s/ matches at position i: the greedy group takes the run
\* to its end, and a shorter group would be followed by a character of the
\* class, never by " GB/s".
MatchAt(s, i) ==
    /\ InClass(s[i])
    /\ RunEnd(s, i) < Len(s)
    /\ s[RunEnd(s, i) + 1] = " GB/s"

\* stdout.match(/([0-9.]+) GB\/s/)?.[1]: group 1 of the leftmost match.
speedMatch(stdout) ==
    LET starts == {i \in 1..Len(stdout) : MatchAt(stdout, i)}
    IN  IF starts = {}
        THEN Absent
        ELSE LET i == CHOOSE j \in starts : \A k \in starts : j <= k
             IN  Present(SubSeq(stdout, i, RunEnd(stdout, i)))

\* The number of digits of s from position i on.
RECURSIVE DigitRun(_, _)
DigitRun(s, i) ==
    IF i <= Len(s) /\ s[i] \in Digits \cup {"0"} THEN 1 + DigitRun(s, i + 1) ELSE 0

RECURSIVE DecValue(_)
DecValue(s) ==
    IF s = <<>> THEN 0
    ELSE 10 * DecValue(SubSeq(s, 1, Len(s) - 1)) + DigitValue(s[Len(s)])

RECURSIVE Pow10(_)
Pow10(n) == IF n = 0 THEN 1 ELSE 10 * Pow10(n - 1)

\* parseFloat(text): the value of the longest prefix of text that is a
\* decimal literal (digits, digits '.' digits*, or '.' digits), NaN when no
\* prefix is one.
parseFloat(text) ==
    LET a == DigitRun(text, 1)
        hasDot == a < Len(text) /\ text[a + 1] = "."
        b == IF hasDot THEN DigitRun(text, a + 2) ELSE 0
    IN  IF a = 0 /\ b = 0
        THEN NaN
        ELSE Finite(DecValue(SubSeq(text, 1, a) \o SubSeq(text, a + 2, a + 1 + b)),
                    Pow10(b))

\* parseFloat(stdout.match(/([0-9.]+) GB\/s/)?.[1] || '0') * 1024
parseSpeed(stdout) ==
    LET m == speedMatch(stdout)
    IN  Times(parseFloat(IF IsPresent(m) THEN ValueOf(m) ELSE <<"0">>), 1024)

\* The speeds of the result object, from the stdout of each command.
performanceResult(prints) ==
    [memory |-> [readSpeed |-> parseSpeed(prints["memRead"]),
                 writeSpeed |-> parseSpeed(prints["memWrite"])],
     disk |-> [readSpeed |-> parseSpeed(prints["diskRead"]),
               writeSpeed |-> parseSpeed(prints["diskWrite"])]]

PerfReply(status, error, body) == [status |-> status, error |-> error, body |-> body]
NoPerfReply == PerfReply(0, "", Absent)

\* A catch clause that rethrows what it caught.
PerfFailedBare(error) == PerfReply(500, error, Absent)

\* catch (error) { throw new Error(`Performance test failed: ${error}`) }
\* with `${error}` the string of what was thrown.
PerfFailed(error) == PerfReply(500, "Performance test failed: " \o error, Absent)

\* The string of the Error that a measurement rejects with, and of what
\* JSON.parse throws.
CommandError(c) == "Error: Command failed: " \o c
JsonError == "SyntaxError: Unexpected end of JSON input"

\* The statements after the cleanup: JSON.parse(...).jobs[0].read.iops throws
\* when fio's stdout is not the JSON the handler expects.
performanceParse(prints, fioJson) ==
    IF fioJson THEN PerfReply(200, "", Present(performanceResult(prints))) ELSE PerfFailed(JsonError)

NoCommands == [c \in PerfCommands |-> "none"]
Launch(procs, cmds) == [c \in PerfCommands |-> IF c \in cmds THEN "running" ELSE procs[c]]

\* dd prints its statistics on stderr: nothing on stdout.
QuietPrints == {[c \in SpeedCommands |-> <<>>]}

\* One command prints any text on stdout, the others nothing or a speed.
ProbePrints ==
    {[c \in SpeedCommands |-> IF c = probe THEN s ELSE rest] :
        probe \in SpeedCommands, s \in Stdouts, rest \in {<<>>, <<"5", " GB/s">>}}

PerfInit(clients, prints) ==
    /\ pfClients = clients
    /\ pfPrints \in prints
    /\ pfFioJson \in BOOLEAN
    /\ pfPc = [r \in Requests |-> "idle"]
    /\ pfProc = [r \in Requests |-> NoCommands]
    /\ pfFiles = [p \in PerfPaths |-> Absent]
    /\ pfWritten = [r \in Requests |-> {}]
    /\ pfReply = [r \in Requests |-> NoPerfReply]

PerfOff ==
    /\ pfClients = {}
    /\ pfPrints = [c \in SpeedCommands |-> <<>>]
    /\ pfFioJson = FALSE
    /\ pfPc = [r \in Requests |-> "off"]
    /\ pfProc = [r \in Requests |-> NoCommands]
    /\ pfFiles = [p \in PerfPaths |-> Absent]
    /\ pfWritten = [r \in Requests |-> {}]
    /\ pfReply = [r \in Requests |-> NoPerfReply]

\* The file at path p after a command of request r opened it for writing:
\* an existing file is truncated and stays the same file, an absent one is
\* created.
OpenedForWrite(p, r) ==
    [pfFiles EXCEPT ![p] = IF IsPresent(pfFiles[p])
                           THEN Present(ValueOf(pfFiles[p]) \cup {r})
                           ELSE Present({r})]

\* What the handler does when measurement c of request r settles. A request
\* that has replied awaits nothing. A rejection rejects the Promise.all and
\* the catch clause answers at once, whatever else of the batch still runs.
\* The last fulfilment of a batch starts the next phase: the memory
\* commands, the disk commands, `rm -f`, and after it the parsing.
Settle(r, c, ok) ==
    LET procs == [pfProc[r] EXCEPT ![c] = IF ok THEN "ok" ELSE "failed"]
        pc == pfPc[r]
    IN  IF c \notin Batch(pc)
        THEN /\ pfProc' = [pfProc EXCEPT ![r] = procs]
             /\ UNCHANGED <<pfPc, pfReply>>
        ELSE IF ~ok
        THEN /\ pfProc' = [pfProc EXCEPT ![r] = procs]
             /\ pfPc' = [pfPc EXCEPT ![r] = "done"]
             /\ pfReply' = [pfReply EXCEPT ![r] = PerfFailed(CommandError(c))]
        ELSE IF \E d \in Batch(pc) : procs[d] # "ok"
        THEN /\ pfProc' = [pfProc EXCEPT ![r] = procs]
             /\ UNCHANGED <<pfPc, pfReply>>
        ELSE IF pc = "cpu"
        THEN /\ pfProc' = [pfProc EXCEPT ![r] = Launch(procs, MemCommands)]
             /\ pfPc' = [pfPc EXCEPT ![r] = "mem"]
             /\ UNCHANGED pfReply
        ELSE IF pc = "mem"
        THEN /\ pfProc' = [pfProc EXCEPT ![r] = Launch(procs, DiskCommands)]
             /\ pfPc' = [pfPc EXCEPT ![r] = "disk"]
             /\ UNCHANGED pfReply
        ELSE IF pc = "disk"
        THEN /\ pfProc' = [pfProc EXCEPT ![r] = Launch(procs, {"rm"})]
             /\ pfPc' = [pfPc EXCEPT ![r] = "cleanup"]
             /\ UNCHANGED pfReply
        ELSE /\ pfProc' = [pfProc EXCEPT ![r] = procs]
             /\ pfPc' = [pfPc EXCEPT ![r] = "done"]
             /\ pfReply' = [pfReply EXCEPT ![r] = performanceParse(pfPrints, pfFioJson)]

\* A handler behind a lock: a request waits while another is in flight.
performanceRequestQueued(r) ==
    /\ pfPc[r] = "idle"
    /\ \A other \in pfClients \ {r} : pfPc[other] \in {"idle", "done"}
    /\ pfProc' = [pfProc EXCEPT ![r] = Launch(pfProc[r], CpuQueries)]
    /\ pfPc' = [pfPc EXCEPT ![r] = "cpu"]
    /\ UNCHANGED <<pfClients, pfPrints, pfFioJson, pfFiles, pfWritten, pfReply>>
    /\ Others("perf")

\* A request arrives: the single-core loop runs, both si.currentLoad()
\* queries are issued, and the handler awaits them.
performanceRequest(r) ==
    /\ pfPc[r] = "idle"
    /\ pfProc' = [pfProc EXCEPT ![r] = Launch(pfProc[r], CpuQueries)]
    /\ pfPc' = [pfPc EXCEPT ![r] = "cpu"]
    /\ UNCHANGED <<pfClients, pfPrints, pfFioJson, pfFiles, pfWritten, pfReply>>
    /\ Others("perf")

\* A si.currentLoad() promise settles.
currentLoadSettled(r, c, ok) ==
    /\ c \in CpuQueries
    /\ pfProc[r][c] = "running"
    /\ Settle(r, c, ok)
    /\ UNCHANGED <<pfClients, pfPrints, pfFioJson, pfFiles, pfWritten>>
    /\ Others("perf")

\* dd opens its output file: /tmp/test for the memory write, /tmp/testfile
\* for the disk write.
ddOpenedOutput(r, c) ==
    /\ c \in {"memWrite", "diskWrite"}
    /\ pfProc[r][c] = "running"
    /\ LET p == IF c = "memWrite" THEN MemFile ELSE TestFile
       IN  /\ pfFiles' = OpenedForWrite(p, r)
           /\ pfWritten' = [pfWritten EXCEPT ![r] = @ \cup {p}]
    /\ pfProc' = [pfProc EXCEPT ![r][c] = "open"]
    /\ UNCHANGED <<pfClients, pfPrints, pfFioJson, pfPc, pfReply>>
    /\ Others("perf")

\* dd opens /tmp/testfile as its input: without the file it exits non-zero
\* and execAsync rejects.
ddOpenedInput(r) ==
    /\ pfProc[r]["diskRead"] = "running"
    /\ IF IsPresent(pfFiles[TestFile])
       THEN /\ pfProc' = [pfProc EXCEPT ![r]["diskRead"] = "open"]
            /\ UNCHANGED <<pfPc, pfReply>>
       ELSE Settle(r, "diskRead", FALSE)
    /\ UNCHANGED <<pfClients, pfPrints, pfFioJson, pfFiles, pfWritten>>
    /\ Others("perf")

\* fio opens /tmp/testfile and lays it out up to --size=1G, which the 1000
\* MiB that dd writes never reach; without the file it creates it.
fioOpened(r) ==
    /\ pfProc[r]["fio"] = "running"
    /\ pfFiles' = OpenedForWrite(TestFile, r)
    /\ pfWritten' = [pfWritten EXCEPT ![r] = @ \cup {TestFile}]
    /\ pfProc' = [pfProc EXCEPT ![r]["fio"] = "open"]
    /\ UNCHANGED <<pfClients, pfPrints, pfFioJson, pfPc, pfReply>>
    /\ Others("perf")

\* A dd or fio process exits: with status 0 once it has done its work, with
\* another status at any time. execAsync settles accordingly.
commandExited(r, c, ok) ==
    /\ c \in MemCommands \cup DiskCommands
    /\ pfProc[r][c] \in {"running", "open"}
    /\ ok => pfProc[r][c] = (IF c = "memRead" THEN "running" ELSE "open")
    /\ Settle(r, c, ok)
    /\ UNCHANGED <<pfClients, pfPrints, pfFioJson, pfFiles, pfWritten>>
    /\ Others("perf")

\* `rm -f /tmp/testfile /tmp/test` exits: with status 0 both paths are gone,
\* whoever wrote the files there.
rmExited(r, ok) ==
    /\ pfProc[r]["rm"] = "running"
    /\ pfFiles' = [p \in PerfPaths |-> IF ok /\ p \in rmPaths THEN Absent ELSE pfFiles[p]]
    /\ Settle(r, "rm", ok)
    /\ UNCHANGED <<pfClients, pfPrints, pfFioJson, pfWritten>>
    /\ Others("perf")

PerfNext ==
    \/ \E r \in pfClients : performanceRequest(r)
    \/ \E r \in pfClients, c \in CpuQueries, ok \in BOOLEAN : currentLoadSettled(r, c, ok)
    \/ \E r \in pfClients, c \in {"memWrite", "diskWrite"} : ddOpenedOutput(r, c)
    \/ \E r \in pfClients : ddOpenedInput(r)
    \/ \E r \in pfClients : fioOpened(r)
    \/ \E r \in pfClients, c \in MemCommands \cup DiskCommands, ok \in BOOLEAN :
          commandExited(r, c, ok)
    \/ \E r \in pfClients, ok \in BOOLEAN : rmExited(r, ok)

\* The measurements of request r that have been started.
Started(r) == {c \in PerfCommands : pfProc[r][c] # "none"}
Resolved(r) == {c \in PerfCommands : pfProc[r][c] = "ok"}

\* C24: within a request the phases run in the order CPU, memory, disk,
\* cleanup, each starting only after every measurement of the one before
\* resolved; the write, the read and the fio run of the disk phase are
\* launched together, and once launched none of them waits for another.
C24_PhasesOrderedDiskUnordered ==
    \A r \in pfClients :
        /\ Started(r) \cap MemCommands # {} => CpuQueries \subseteq Resolved(r)
        /\ Started(r) \cap DiskCommands # {} => MemCommands \subseteq Resolved(r)
        /\ "rm" \in Started(r) => DiskCommands \subseteq Resolved(r)
        /\ Started(r) \cap MemCommands \in {{}, MemCommands}
        /\ Started(r) \cap DiskCommands \in {{}, DiskCommands}
        /\ pfPc[r] = "cpu" => Started(r) = CpuQueries
        /\ pfPc[r] = "mem" => Started(r) = CpuQueries \cup MemCommands
        /\ pfPc[r] = "disk" => Started(r) = CpuQueries \cup MemCommands \cup DiskCommands
        /\ pfPc[r] = "cleanup" => Started(r) = PerfCommands
        /\ (\A c \in DiskCommands : pfProc[r][c] = "running") =>
              /\ ENABLED ddOpenedOutput(r, "diskWrite")
              /\ ENABLED ddOpenedInput(r)
              /\ ENABLED fioOpened(r)
        /\ pfProc[r]["diskWrite"] = "running" /\ pfProc[r]["fio"] = "running" =>
              ENABLED fioOpened(r)
        /\ pfProc[r]["diskWrite"] = "running" /\ pfProc[r]["diskRead"] = "running" =>
              ENABLED ddOpenedInput(r)

\* One request alone: its dd read has /tmp/testfile open, which its fio
\* created, while its dd write has not yet opened the file.
C24_Witness ==
    /\ pfPc["r1"] = "disk"
    /\ pfPc["r2"] = "idle"
    /\ pfProc["r1"]["diskRead"] = "open"
    /\ pfProc["r1"]["fio"] \in {"open", "ok"}
    /\ pfProc["r1"]["diskWrite"] = "running"
    /\ pfWritten["r1"] = {MemFile, TestFile}

\* The measurements of request r that failed, and what a failed request
\* can be answered with.
FailedOf(r) == {c \in PerfCommands : pfProc[r][c] = "failed"}
PerfFailures ==
    {"Performance test failed: " \o e :
        e \in {CommandError(c) : c \in PerfCommands} \cup {JsonError}}

\* Request r failed in its memory or disk phase.
FailedMidway(r) ==
    /\ pfPc[r] = "done"
    /\ FailedOf(r) \cap (MemCommands \cup DiskCommands) # {}

\* The failure of a measurement, or of the parsing of fio's output, is
\* answered with an error prefixed 'Performance test failed: '; a request
\* that failed in its memory or disk phase never issues `rm`.
C25_FailureAnswer ==
    \A r \in pfClients :
        /\ FailedOf(r) # {} =>
              /\ pfPc[r] = "done"
              /\ pfReply[r] \in {PerfFailed(CommandError(c)) : c \in FailedOf(r)}
        /\ pfPc[r] = "done" /\ FailedOf(r) = {} =>
              /\ pfProc[r]["rm"] = "ok"
              /\ pfReply[r] = IF pfFioJson THEN pfReply[r] ELSE PerfFailed(JsonError)
              /\ pfFioJson => pfReply[r].status = 200
        /\ pfReply[r].status \notin {0, 200} =>
              /\ pfReply[r].status = 500
              /\ pfReply[r].error \in PerfFailures
        /\ FailedMidway(r) => pfProc[r]["rm"] = "none"

\* C25 as stated: the prefixed error, no cleanup after a failure in the
\* memory or disk phase, and the files which that request has written
\* remain on disk.
C25_FilesRemain ==
    /\ C25_FailureAnswer
    /\ \A r \in pfClients :
          FailedMidway(r) => \A p \in pfWritten[r] : IsPresent(pfFiles[p])

\* C25 (amended): a failed measurement or an unparsable fio output is
\* answered with an error prefixed 'Performance test failed: '; a request
\* that failed in its memory or disk phase never issues the cleanup, so
\* the files it has written remain on disk unless the cleanup of another
\* request removes them.
C25_FailureLeavesFilesToOthers ==
    /\ C25_FailureAnswer
    /\ \A r \in pfClients :
          FailedMidway(r) =>
              \/ \A p \in pfWritten[r] :
                    IsPresent(pfFiles[p]) /\ r \in ValueOf(pfFiles[p])
              \/ \E other \in pfClients \ {r} : pfProc[other]["rm"] = "ok"

\* One request alone: its dd read found no /tmp/testfile and failed, the
\* request was answered with the prefixed error, no `rm` was issued and
\* /tmp/test, which it wrote, is on disk.
C25_Witness ==
    /\ pfPc["r2"] = "idle"
    /\ pfProc["r1"]["diskRead"] = "failed"
    /\ pfReply["r1"] = PerfFailed(CommandError("diskRead"))
    /\ pfProc["r1"]["rm"] = "none"
    /\ MemFile \in pfWritten["r1"]
    /\ IsPresent(pfFiles[MemFile])

\* The command whose stdout each speed of the result is read from.
SpeedFields ==
    {<<"memory", "readSpeed", "memRead">>, <<"memory", "writeSpeed", "memWrite">>,
     <<"disk", "readSpeed", "diskRead">>, <<"disk", "writeSpeed", "diskWrite">>}

\* text is a decimal number: digits with at most one dot among them.
IsNumber(text) ==
    /\ \E i \in DOMAIN text : text[i] # "."
    /\ Cardinality({i \in DOMAIN text : text[i] = "."}) <= 1

\* The number that text writes, as a fraction.
NumberOf(text) ==
    LET dots == {i \in DOMAIN text : text[i] = "."}
        digits == SelectSeq(text, LAMBDA c : c # ".")
    IN  Finite(DecValue(digits),
               Pow10(IF dots = {} THEN 0 ELSE Len(text) - (CHOOSE i \in dots : TRUE)))

SameNumber(x, y) ==
    /\ x.kind = "finite"
    /\ y.kind = "finite"
    /\ x.num * y.den = y.num * x.den

C10_TempFilesWrittenThenRemoved ==
    \A r \in pfClients :
        /\ pfProc[r]["rm"] # "none" => \A c \in DiskCommands : pfProc[r][c] = "ok"
        /\ pfProc[r]["rm"] = "running" => pfReply[r].status = 0
        /\ pfReply[r].status = 200 =>
              /\ pfWritten[r] = PerfPaths
              /\ pfProc[r]["memWrite"] = "ok"
              /\ pfProc[r]["diskWrite"] = "ok"
              /\ pfProc[r]["rm"] = "ok"
              /\ \A p \in PerfPaths :
                    IsPresent(pfFiles[p]) => r \notin ValueOf(pfFiles[p])

\* A request is answered with 200 while a file that another request wrote
\* is at /tmp/testfile.
C10_Witness ==
    \E r \in pfClients :
        /\ pfReply[r].status = 200
        /\ pfWritten[r] = PerfPaths
        /\ IsPresent(pfFiles[TestFile])

(* C20: nothing serializes the requests.  A request that arrives starts   *)
(* whatever phase another request is in, and a cleanup that was issued     *)
(* completes whatever the commands of another request are doing; both use  *)
(* the paths /tmp/test and /tmp/testfile.                                  *)
C20_NotSerialized ==
    \A r \in pfClients :
        /\ pfPc[r] = "idle" => ENABLED performanceRequest(r)
        /\ pfProc[r]["rm"] = "running" => ENABLED rmExited(r, TRUE)
        /\ pfWritten[r] \subseteq {"/tmp/test", "/tmp/testfile"}

\* One request's cleanup has removed /tmp/testfile, which the other request
\* had written, while that request's disk read and fio are still running.
C20_Witness ==
    \E r, other \in pfClients :
        /\ r # other
        /\ pfProc[r]["rm"] = "ok"
        /\ pfPc[other] = "disk"
        /\ pfProc[other]["diskRead"] = "open"
        /\ pfProc[other]["fio"] = "running"
        /\ "/tmp/testfile" \in pfWritten[other]
        /\ ~IsPresent(pfFiles["/tmp/testfile"])

(***************************************************************************)
(*   POST /reboot, POST /shutdown, POST /update (system.ts, 222-239 and    *)
(*   266-277)                                                              *)
(***************************************************************************)

PowerRoutes == {"/reboot", "/shutdown", "/update"}

\* The shell command of each handler.
PowerCommand ==
    [route \in PowerRoutes |->
        CASE route = "/reboot" -> "shutdown -r now"
          [] route = "/shutdown" -> "shutdown -h now"
          [] OTHER -> "apt-get update && apt-get upgrade -y"]

\* The status string of each handler.
PowerStatus ==
    [route \in PowerRoutes |->
        CASE route = "/reboot" -> "rebooting"
          [] route = "/shutdown" -> "shutting_down"
          [] OTHER -> "updated"]

\* The prefix of each handler's error message, without the prefix in the
\* altered handler.
PowerPrefixNone == [route \in PowerRoutes |-> ""]

PowerPrefix ==
    [route \in PowerRoutes |->
        CASE route = "/reboot" -> "Failed to initiate reboot: "
          [] route = "/shutdown" -> "Failed to initiate shutdown: "
          [] OTHER -> "Update failed: "]

\* What a command may print, and the messages of the errors execAsync may
\* reject with.
PowerTexts == {"", "0 upgraded"}
PowerErrors == {"Command failed", "spawn /bin/sh ENOENT"}

\* `${error}` for an Error with this message.
ErrorToString(message) == "Error: " \o message

NoPowerReply == [status |-> "", output |-> "", errors |-> "", error |-> ""]

\* return { status } and, for /update, the command's stdout and stderr.
PowerReturned(route, stdout, stderr) ==
    [status |-> PowerStatus[route],
     output |-> IF route = "/update" THEN stdout ELSE "",
     errors |-> IF route = "/update" THEN stderr ELSE "",
     error |-> ""]

\* throw new Error(`<prefix>${error}`)
PowerThrown(route, message) ==
    [status |-> "", output |-> "", errors |-> "",
     error |-> PowerPrefix[route] \o ErrorToString(message)]

PowerInit ==
    /\ pwPc = [route \in PowerRoutes |-> "idle"]
    /\ pwRan = [route \in PowerRoutes |-> ""]
    /\ pwOutcome = [route \in PowerRoutes |-> ""]
    /\ pwReply = [route \in PowerRoutes |-> NoPowerReply]

PowerOff ==
    /\ pwPc = [route \in PowerRoutes |-> "off"]
    /\ pwRan = [route \in PowerRoutes |-> ""]
    /\ pwOutcome = [route \in PowerRoutes |-> ""]
    /\ pwReply = [route \in PowerRoutes |-> NoPowerReply]

\* The handler up to its await: execAsync(command).
powerRequest(route) ==
    /\ pwPc[route] = "idle"
    /\ pwPc' = [pwPc EXCEPT ![route] = "exec"]
    /\ pwRan' = [pwRan EXCEPT ![route] = PowerCommand[route]]
    /\ UNCHANGED <<pwOutcome, pwReply>>
    /\ Others("power")

\* The command exits with status 0: the handler returns its status.
powerFulfilled(route, stdout, stderr) ==
    /\ pwPc[route] = "exec"
    /\ pwPc' = [pwPc EXCEPT ![route] = "done"]
    /\ pwOutcome' = [pwOutcome EXCEPT ![route] = "ok"]
    /\ pwReply' = [pwReply EXCEPT ![route] = PowerReturned(route, stdout, stderr)]
    /\ UNCHANGED pwRan
    /\ Others("power")

\* execAsync rejects: the catch clause throws the prefixed error.
powerRejected(route, message) ==
    /\ pwPc[route] = "exec"
    /\ pwPc' = [pwPc EXCEPT ![route] = "done"]
    /\ pwOutcome' = [pwOutcome EXCEPT ![route] = message]
    /\ pwReply' = [pwReply EXCEPT ![route] = PowerThrown(route, message)]
    /\ UNCHANGED pwRan
    /\ Others("power")

PowerNext ==
    \/ \E route \in PowerRoutes : powerRequest(route)
    \/ \E route \in PowerRoutes, stdout \in PowerTexts, stderr \in PowerTexts :
          powerFulfilled(route, stdout, stderr)
    \/ \E route \in PowerRoutes, message \in PowerErrors : powerRejected(route, message)

(* C11: a finished /reboot, /shutdown or /update request carries its       *)
(* status string exactly when its shell command exited with status 0;      *)
(* when the command failed it carries no status and the error message is   *)
(* the handler's prefix followed by the string of the original error.      *)
C11_StatusOnlyOnSuccess ==
    \A route \in PowerRoutes :
        /\ pwReply[route].status # "" =>
              /\ pwOutcome[route] = "ok"
              /\ pwReply[route].status =
                    (IF route = "/reboot" THEN "rebooting"
                     ELSE IF route = "/shutdown" THEN "shutting_down" ELSE "updated")
        /\ (pwPc[route] = "done" /\ pwOutcome[route] # "ok") =>
              /\ pwReply[route].status = ""
              /\ pwReply[route].error =
                    (IF route = "/reboot" THEN "Failed to initiate reboot: "
                     ELSE IF route = "/shutdown" THEN "Failed to initiate shutdown: "
                     ELSE "Update failed: ") \o "Error: " \o pwOutcome[route]

\* /update has failed while /reboot has returned its status.
C11_Witness ==
    /\ pwPc["/update"] = "done"
    /\ pwOutcome["/update"] \in PowerErrors
    /\ pwReply["/update"].error # ""
    /\ pwReply["/reboot"].status = "rebooting"

(***************************************************************************)
(*        POST /docker/images/pull (system.ts, lines 546-569)              *)
(***************************************************************************)

\* request.body.image: a string, or something z.string() rejects.
PullImages == {"nginx", "redis:7", "alpine:3"}
NotAString == "<not a string>"

\* The progress events of the pull stream.
PullEvents == {"Downloading", "Extracting"}
MaxPullEvents == 3

NoPullReply == [status |-> "", image |-> "", error |-> ""]

\* return { status: 'pulled', image }
PullReturned(image) == [status |-> "pulled", image |-> image, error |-> ""]

\* The handler throws: a ZodError, or the error the promise rejected with.
PullThrown(error) == [status |-> "", image |-> "", error |-> error]

PullInit ==
    /\ ipBody \in PullImages \cup {NotAString}
    /\ ipPc = "idle"
    /\ ipStream = "none"
    /\ ipProgress = <<>>
    /\ ipSent = <<>>
    /\ ipReply = NoPullReply

PullOff ==
    /\ ipBody = ""
    /\ ipPc = "off"
    /\ ipStream = "none"
    /\ ipProgress = <<>>
    /\ ipSent = <<>>
    /\ ipReply = NoPullReply

\* The handler settles: its reply is what the caller is sent.
PullSettled(reply) ==
    /\ ipPc' = "done"
    /\ ipReply' = reply
    /\ ipSent' = Append(ipSent, reply)

\* A callback of docker.pull that resolves without following the stream.
pullCallbackUnfollowed(err) ==
    IF err # ""
    THEN PullSettled(PullThrown(err)) /\ ipStream' = "failed"
    ELSE PullSettled(PullReturned(ipBody)) /\ ipStream' = "open"

\* The callback of docker.pull: reject(err), or followProgress(stream, ...)
pullCallback(err) ==
    IF err # ""
    THEN PullSettled(PullThrown(err)) /\ ipStream' = "failed"
    ELSE ipPc' = "follow" /\ ipStream' = "open" /\ UNCHANGED <<ipReply, ipSent>>

\* The handler up to its await: the body is parsed and docker.pull called.
pullRequest ==
    /\ ipPc = "idle"
    /\ IF ipBody = NotAString
       THEN PullSettled(PullThrown("ZodError"))
       ELSE ipPc' = "pull" /\ UNCHANGED <<ipReply, ipSent>>
    /\ UNCHANGED <<ipBody, ipStream, ipProgress>>
    /\ Others("pull")

\* docker.pull calls back.
pullStarted(err) ==
    /\ ipPc = "pull"
    /\ pullCallback(err)
    /\ UNCHANGED <<ipBody, ipProgress>>
    /\ Others("pull")

\* The stream delivers a progress event: followProgress was given no
\* onProgress callback, the event goes to its output only.
pullProgress(event) ==
    /\ ipPc = "follow"
    /\ Len(ipProgress) < MaxPullEvents
    /\ ipProgress' = Append(ipProgress, event)
    /\ UNCHANGED <<ipBody, ipPc, ipStream, ipSent, ipReply>>
    /\ Others("pull")

\* followProgress calls onFinished: reject(err) or resolve(output), and the
\* handler settles.
pullFinished(err) ==
    /\ ipPc = "follow"
    /\ ipStream' = IF err # "" THEN "error" ELSE "ended"
    /\ PullSettled(IF err # "" THEN PullThrown(err) ELSE PullReturned(ipBody))
    /\ UNCHANGED <<ipBody, ipProgress>>
    /\ Others("pull")

PullErrors == {"", "manifest unknown"}

PullNext ==
    \/ pullRequest
    \/ \E err \in PullErrors : pullStarted(err)
    \/ \E event \in PullEvents : pullProgress(event)
    \/ \E err \in PullErrors : pullFinished(err)

(* C14: {status: 'pulled', image} is the reply only when the pull stream   *)
(* has been followed to its end without error, and it names the image of   *)
(* the request; when starting the pull failed or the stream reported an    *)
(* error the request has failed with that error and without 'pulled'; the  *)
(* caller is sent nothing but the final reply, no progress event.          *)
C14_PulledOnlyAfterCompletion ==
    /\ ipReply.status = "pulled" =>
          ipStream = "ended" /\ ipPc = "done" /\ ipReply.image = ipBody
    /\ ipStream \in {"failed", "error"} =>
          ipPc = "done" /\ ipReply.status = "" /\ ipReply.error = "manifest unknown"
    /\ ipStream = "ended" => ipReply.status = "pulled"
    /\ ipSent = (IF ipPc = "done" THEN <<ipReply>> ELSE <<>>)

\* The pull has completed after three progress events.
C14_Witness ==
    /\ ipReply.status = "pulled"
    /\ Len(ipProgress) = MaxPullEvents
    /\ ipStream = "ended"

(***************************************************************************)
(*  POST /docker/containers/:id/start and /stop (system.ts, 502-521)       *)
(***************************************************************************)

ContainerActions == {"start", "stop"}

\* The status string of each handler.
ActionStatus == [a \in ContainerActions |-> IF a = "start" THEN "started" ELSE "stopped"]

NoActionReply == [status |-> "", error |-> ""]

ActionsInit ==
    /\ caPc = [a \in ContainerActions |-> "idle"]
    /\ caOutcome = [a \in ContainerActions |-> ""]
    /\ caReply = [a \in ContainerActions |-> NoActionReply]

ActionsOff ==
    /\ caPc = [a \in ContainerActions |-> "off"]
    /\ caOutcome = [a \in ContainerActions |-> ""]
    /\ caReply = [a \in ContainerActions |-> NoActionReply]

\* The handler up to its await: container.start() or container.stop().
actionRequest(a) ==
    /\ caPc[a] = "idle"
    /\ caPc' = [caPc EXCEPT ![a] = "call"]
    /\ UNCHANGED <<caOutcome, caReply>>
    /\ Others("actions")

\* The Docker call settles: the handler returns its status, or (it has no
\* try/catch) the rejection leaves the handler as it is.
actionSettled(a, err) ==
    /\ caPc[a] = "call"
    /\ caPc' = [caPc EXCEPT ![a] = "done"]
    /\ caOutcome' = [caOutcome EXCEPT ![a] = IF err = "" THEN "ok" ELSE err]
    /\ caReply' = [caReply EXCEPT ![a] =
                      IF err = "" THEN [status |-> ActionStatus[a], error |-> ""]
                      ELSE [status |-> "", error |-> err]]
    /\ Others("actions")

ActionsNext ==
    \/ \E a \in ContainerActions : actionRequest(a)
    \/ \E a \in ContainerActions, err \in DockerErrors : actionSettled(a, err)

(***************************************************************************)
(*                 The failure handling of the handlers                    *)
(***************************************************************************)

\* The handlers taken together: one of them serves requests at a time.
HandlersNext ==
    \/ PowerNext
    \/ LogsNext
    \/ StatsNext
    \/ ActionsNext
    \/ PerfNext

\* The prefixes a handler puts before the error it rethrows.
ErrorPrefixes ==
    {"Failed to initiate reboot: ", "Failed to initiate shutdown: ", "Update failed: ",
     "Performance test failed: ", "Failed to get system logs: ",
     "Failed to fetch Docker stats: ", "Failed to start container: ",
     "Failed to stop container: "}

\* error is a generic error that carries the original one's message.
Rethrown(error, original) ==
    \E prefix \in ErrorPrefixes :
        error \in {prefix \o original, prefix \o "Error: " \o original}

(* C15 as stated: in every handler a failed external call (shell command,  *)
(* host-facts query, Docker call) ends the request with a generic error    *)
(* that carries the message of the original error.                         *)
C15_EveryFailureRethrown ==
    /\ \A route \in PowerRoutes :
          (pwPc[route] = "done" /\ pwOutcome[route] # "ok") =>
              Rethrown(pwReply[route].error, pwOutcome[route])
    /\ \A r \in pfClients, c \in PerfCommands :
          (pfPc[r] = "done" /\ pfProc[r][c] = "failed" /\ pfReply[r].status = 500) =>
              \E d \in PerfCommands :
                  /\ pfProc[r][d] = "failed"
                  /\ Rethrown(pfReply[r].error, "Command failed: " \o d)
    /\ (logsPc = "done" /\ ~journal.ok) => logsReply.status # 200
    /\ dsLogged # <<>> => Rethrown(dsReply.error, dsLogged[1])
    /\ \A a \in ContainerActions :
          (caPc[a] = "done" /\ caOutcome[a] # "ok") =>
              Rethrown(caReply[a].error, caOutcome[a])

(* C15, amended: a failed external call is handled handler by handler.     *)
(* /reboot, /shutdown, /update and /performance rethrow an error whose     *)
(* message is the handler's prefix followed by the original error; GET     *)
(* /docker/stats logs the original error and throws the fixed message      *)
(* 'Failed to fetch Docker stats'; GET /logs absorbs the failure of its    *)
(* commands and replies with the fallback or the sentinel; /start and      *)
(* /stop, which have no try/catch, fail with the original error itself.    *)
C15_FailureHandlingByHandler ==
    /\ \A route \in PowerRoutes :
          (pwPc[route] = "done" /\ pwOutcome[route] # "ok") =>
              /\ pwReply[route].status = ""
              /\ \E prefix \in ErrorPrefixes :
                    pwReply[route].error = prefix \o "Error: " \o pwOutcome[route]
    /\ \A r \in pfClients :
          (pfPc[r] = "done" /\ \E c \in PerfCommands : pfProc[r][c] = "failed") =>
              /\ pfReply[r].status = 500
              /\ \E c \in PerfCommands :
                    /\ pfProc[r][c] = "failed"
                    /\ pfReply[r].error =
                          "Performance test failed: Error: Command failed: " \o c
    /\ logsPc = "done" =>
          /\ logsReply.status = 200
          /\ (~journal.ok /\ ~syslog.ok) => logsReply.logs = NoLogs
    /\ dsLogged # <<>> =>
          /\ Len(dsLogged) = 1
          /\ dsLogged[1] \in DockerErrors \ {""}
          /\ dsReply.status = 500
          /\ dsReply.error = "Failed to fetch Docker stats"
    /\ dsReply.status = 500 => dsLogged # <<>>
    /\ \A a \in ContainerActions :
          (caPc[a] = "done" /\ caOutcome[a] # "ok") =>
              /\ caReply[a].status = ""
              /\ caReply[a].error = caOutcome[a]
              /\ caReply[a].error \in DockerErrors \ {""}

\* Both log commands have failed and GET /logs has replied.
C15_Witness ==
    /\ logsPc = "done"
    /\ ~journal.ok
    /\ ~syslog.ok
    /\ logsRan = <<"journalctl", "tail">>
    /\ logsReply = [status |-> 200, logs |-> NoLogs]

(***************************************************************************)
(*           GET /docker/containers (system.ts, lines 435-452)             *)
(***************************************************************************)

ListInit ==
    /\ lcQuery \in QueryValues
    /\ lcPc = "idle"
    /\ lcAll = {}
    /\ lcReply = 0

ListOff ==
    /\ lcQuery = [type |-> "undefined", value |-> ""]
    /\ lcPc = "off"
    /\ lcAll = {}
    /\ lcReply = 0

\* The handler up to its await: containerQuerySchema.parse(request.query),
\* whose throw fails the request, then docker.listContainers({ all }).
listRequest ==
    /\ lcPc = "idle"
    /\ IF SchemaAccepts(lcQuery)
       THEN lcAll' = {ParseFlag(lcQuery)} /\ lcPc' = "listContainers" /\ lcReply' = lcReply
       ELSE lcAll' = lcAll /\ lcPc' = "done" /\ lcReply' = 500
    /\ UNCHANGED lcQuery
    /\ Others("list")

\* listContainers settles: its result is the reply, or the handler throws.
listSettled(err) ==
    /\ lcPc = "listContainers"
    /\ lcPc' = "done"
    /\ lcReply' = IF err = "" THEN 200 ELSE 500
    /\ UNCHANGED <<lcQuery, lcAll>>
    /\ Others("list")

ListNext ==
    \/ listRequest
    \/ \E err \in DockerErrors : listSettled(err)

\* The two handlers with a boolean query flag.
FlagsNext ==
    \/ InfoNext
    \/ ListNext

(* C21: the flag `detailed` of GET /info and the flag `all` of GET         *)
(* /docker/containers are true exactly when the query parameter is the     *)
(* string 'true'; when the parameter is absent or any other string the     *)
(* flag is false and the parse does not reject the request: the handler    *)
(* goes on to its queries, or to listContainers with all = false.          *)
C21_FlagTrueOnlyForStringTrue ==
    /\ (inPc \notin {"idle", "off"} /\ inQuery.type \in {"undefined", "string"}) =>
          /\ inDetailed = (inQuery.type = "string" /\ inQuery.value = "true")
          /\ inIssued # {}
    /\ inDetailed => inQuery = [type |-> "string", value |-> "true"]
    /\ (lcPc \notin {"idle", "off"} /\ lcQuery.type \in {"undefined", "string"}) =>
          /\ lcAll = {lcQuery.type = "string" /\ lcQuery.value = "true"}
          /\ lcPc = "done" => lcReply \in {200, 500}
    /\ TRUE \in lcAll => lcQuery = [type |-> "string", value |-> "true"]

\* ?all=TRUE: the containers are listed with all = false.
C21_Witness ==
    /\ lcQuery = [type |-> "string", value |-> "TRUE"]
    /\ lcPc = "done"
    /\ lcAll = {FALSE}
    /\ lcReply = 200

(***************************************************************************)
(*                       CreateContainerDialog (UI)                        *)
(***************************************************************************)

\* The values of the useState hooks when the component mounts.  memory and
\* cpuShares are `number | ''`: the empty set stands for '', {n} for n.
InitialForm ==
    [image |-> "", name |-> "", ports |-> <<>>, volumes |-> <<>>,
     envVars |-> <<>>, restart |-> "no", privileged |-> FALSE,
     networkMode |-> "bridge", hostname |-> "", devices |-> <<>>,
     command |-> <<>>, memory |-> {}, cpuShares |-> {}, labels |-> <<>>]

\* What the user types or picks in the fields that the model edits.
ImageInputs == {"", "nginx"}
RestartInputs == {"no", "always"}
MemoryInputs == {{}, {512}}

\* The clicks on "Create Container": the button is never disabled, so a
\* second click can come while the first mutation is in flight.
Submissions == {"s1", "s2"}

\* What a fetch can do: resolve with ok, resolve with ok = false, or reject.
FetchOutcomes == {"ok", "notOk", "rejected"}

NoResponses == [pull |-> "none", create |-> "none", json |-> "none"]

DialogInit ==
    /\ cdFields = InitialForm
    /\ cdOpen = TRUE
    /\ cdPc = [s \in Submissions |-> "idle"]
    /\ cdData = [s \in Submissions |-> {}]
    /\ cdResponses = [s \in Submissions |-> NoResponses]
    /\ cdSent = <<>>
    /\ cdEffects = <<>>
    /\ cdError = [s \in Submissions |-> ""]

DialogOff ==
    /\ cdFields = InitialForm
    /\ cdOpen = FALSE
    /\ cdPc = [s \in Submissions |-> "off"]
    /\ cdData = [s \in Submissions |-> {}]
    /\ cdResponses = [s \in Submissions |-> NoResponses]
    /\ cdSent = <<>>
    /\ cdEffects = <<>>
    /\ cdError = [s \in Submissions |-> ""]

\* `x || undefined` and `xs.length > 0 ? xs : undefined`.
OrUndefined(x, empty) == IF x = empty THEN Absent ELSE Present(x)

\* The object handleSubmit builds from the fields.  Each of ports and
\* volumes is mapped member by member onto the same three members, and
\* Object.fromEntries of no entries is the empty object.
SubmitData(f) ==
    [image |-> f.image, name |-> f.name,
     ports |-> [i \in 1..Len(f.ports) |-> f.ports[i]],
     volumes |-> [i \in 1..Len(f.volumes) |-> f.volumes[i]],
     env |-> [i \in 1..Len(f.envVars) |-> f.envVars[i]],
     restart |-> f.restart, privileged |-> f.privileged,
     network_mode |-> f.networkMode,
     hostname |-> OrUndefined(f.hostname, ""),
     devices |-> OrUndefined(f.devices, <<>>),
     command |-> OrUndefined(f.command, <<>>),
     memory |-> f.memory,
     cpu_shares |-> f.cpuShares,
     labels |-> IF f.labels = <<>> THEN Absent
                ELSE Present([i \in 1..Len(f.labels) |-> f.labels[i]])]

\* The body of the pull request and of the create request.
PullRequest(s, data) ==
    [by |-> s, url |-> "/api/docker/images/pull", body |-> [image |-> data.image]]
CreateRequest(s, data) ==
    [by |-> s, url |-> "/api/docker/containers", body |-> data]

\* onChange of the image field, the restart select and the memory field.
setImage(v) ==
    /\ cdOpen
    /\ v # cdFields.image
    /\ cdFields' = [cdFields EXCEPT !.image = v]
    /\ UNCHANGED <<cdOpen, cdPc, cdData, cdResponses, cdSent, cdEffects, cdError>>
    /\ Others("dialog")

setRestart(v) ==
    /\ cdOpen
    /\ v # cdFields.restart
    /\ cdFields' = [cdFields EXCEPT !.restart = v]
    /\ UNCHANGED <<cdOpen, cdPc, cdData, cdResponses, cdSent, cdEffects, cdError>>
    /\ Others("dialog")

setMemory(v) ==
    /\ cdOpen
    /\ v # cdFields.memory
    /\ cdFields' = [cdFields EXCEPT !.memory = v]
    /\ UNCHANGED <<cdOpen, cdPc, cdData, cdResponses, cdSent, cdEffects, cdError>>
    /\ Others("dialog")

\* The Cancel button and the backdrop: onClose, which the parent answers by
\* passing open = false.
cancel ==
    /\ cdOpen
    /\ cdOpen' = FALSE
    /\ UNCHANGED <<cdFields, cdPc, cdData, cdResponses, cdSent, cdEffects, cdError>>
    /\ Others("dialog")

\* handleSubmit: build data, createContainer.mutate(data); mutationFn starts
\* by sending the pull request.
handleSubmit(s) ==
    /\ cdOpen
    /\ cdPc[s] = "idle"
    /\ cdData' = [cdData EXCEPT ![s] = Present(SubmitData(cdFields))]
    /\ cdSent' = Append(cdSent, PullRequest(s, SubmitData(cdFields)))
    /\ cdPc' = [cdPc EXCEPT ![s] = "pull"]
    /\ UNCHANGED <<cdFields, cdOpen, cdResponses, cdEffects, cdError>>
    /\ Others("dialog")

\* mutationFn throws or a fetch rejects: useMutation is given no onError, so
\* the mutation only records the error.
mutationFailed(s, message) ==
    /\ cdPc' = [cdPc EXCEPT ![s] = "error"]
    /\ cdError' = [cdError EXCEPT ![s] = message]
    /\ UNCHANGED <<cdFields, cdOpen, cdEffects>>

\* The options' onSuccess: invalidateQueries, onClose(), resetForm().
onSuccess(s) ==
    /\ cdPc' = [cdPc EXCEPT ![s] = "success"]
    /\ cdEffects' = cdEffects \o <<<<s, "invalidateQueries docker-containers">>,
                                   <<s, "onClose">>, <<s, "resetForm">>>>
    /\ cdOpen' = FALSE
    /\ cdFields' = InitialForm
    /\ UNCHANGED cdError

\* A mutationFn without the check of pullResponse.ok: the create request is
\* sent whatever the pull response was.
pullRespondedUnchecked(s, outcome) ==
    /\ cdPc[s] = "pull"
    /\ cdResponses' = [cdResponses EXCEPT ![s].pull = outcome]
    /\ IF outcome # "rejected"
       THEN /\ cdSent' = Append(cdSent, CreateRequest(s, ValueOf(cdData[s])))
            /\ cdPc' = [cdPc EXCEPT ![s] = "create"]
            /\ UNCHANGED <<cdFields, cdOpen, cdEffects, cdError>>
       ELSE /\ mutationFailed(s, "TypeError: Failed to fetch")
            /\ UNCHANGED cdSent
    /\ UNCHANGED cdData
    /\ Others("dialog")

\* The pull fetch settles; after `if (!pullResponse.ok) throw` the create
\* request is sent.
pullResponded(s, outcome) ==
    /\ cdPc[s] = "pull"
    /\ cdResponses' = [cdResponses EXCEPT ![s].pull = outcome]
    /\ IF outcome = "ok"
       THEN /\ cdSent' = Append(cdSent, CreateRequest(s, ValueOf(cdData[s])))
            /\ cdPc' = [cdPc EXCEPT ![s] = "create"]
            /\ UNCHANGED <<cdFields, cdOpen, cdEffects, cdError>>
       ELSE /\ mutationFailed(s, IF outcome = "notOk" THEN "Failed to pull image"
                                 ELSE "TypeError: Failed to fetch")
            /\ UNCHANGED cdSent
    /\ UNCHANGED cdData
    /\ Others("dialog")

\* The create fetch settles; after `if (!response.ok) throw` the body is read.
createResponded(s, outcome) ==
    /\ cdPc[s] = "create"
    /\ cdResponses' = [cdResponses EXCEPT ![s].create = outcome]
    /\ IF outcome = "ok"
       THEN /\ cdPc' = [cdPc EXCEPT ![s] = "json"]
            /\ UNCHANGED <<cdFields, cdOpen, cdEffects, cdError>>
       ELSE mutationFailed(s, IF outcome = "notOk" THEN "Failed to create container"
                              ELSE "TypeError: Failed to fetch")
    /\ UNCHANGED <<cdData, cdSent>>
    /\ Others("dialog")

\* response.json() settles: the mutation succeeds and onSuccess runs, or the
\* body is not JSON and the mutation fails.
jsonRead(s, ok) ==
    /\ cdPc[s] = "json"
    /\ cdResponses' = [cdResponses EXCEPT ![s].json = IF ok THEN "ok" ELSE "rejected"]
    /\ IF ok THEN onSuccess(s)
       ELSE mutationFailed(s, "SyntaxError: Unexpected token")
    /\ UNCHANGED <<cdData, cdSent>>
    /\ Others("dialog")

DialogNext ==
    \/ \E v \in ImageInputs : setImage(v)
    \/ \E v \in RestartInputs : setRestart(v)
    \/ \E v \in MemoryInputs : setMemory(v)
    \/ cancel
    \/ \E s \in Submissions : handleSubmit(s)
    \/ \E s \in Submissions, o \in FetchOutcomes : pullResponded(s, o)
    \/ \E s \in Submissions, o \in FetchOutcomes : createResponded(s, o)
    \/ \E s \in Submissions, ok \in BOOLEAN : jsonRead(s, ok)

\* The positions in cdSent of the requests of submission s to url.
SentAt(s, url) ==
    {i \in 1..Len(cdSent) : cdSent[i].by = s /\ cdSent[i].url = url}

EffectsOf(s) == {i \in 1..Len(cdEffects) : cdEffects[i][1] = s}

\* A step in which the mutation of s fails.
FailureStep(s) == cdPc[s] # "error" /\ cdPc'[s] = "error"

\* Per submission: one pull request, sent first and carrying the image
\* submitted; a create request only after an ok pull response, carrying the
\* data submitted; the success effects only after both responses were ok
\* and the body was read.
C22_Order ==
    \A s \in Submissions :
        /\ cdPc[s] \notin {"idle", "off"} =>
              /\ Cardinality(SentAt(s, "/api/docker/images/pull")) = 1
              /\ \A i \in SentAt(s, "/api/docker/images/pull") :
                    cdSent[i].body = [image |-> ValueOf(cdData[s]).image]
        /\ \A j \in SentAt(s, "/api/docker/containers") :
              /\ cdResponses[s].pull = "ok"
              /\ \A i \in SentAt(s, "/api/docker/images/pull") : i < j
              /\ cdSent[j].body = ValueOf(cdData[s])
        /\ cdPc[s] \in {"idle", "off"} =>
              SentAt(s, "/api/docker/images/pull") = {}
        /\ cdResponses[s].pull # "ok" => SentAt(s, "/api/docker/containers") = {}
        /\ Cardinality(SentAt(s, "/api/docker/containers")) <= 1
        /\ EffectsOf(s) # {} <=> cdPc[s] = "success"
        /\ cdPc[s] = "success" =>
              /\ cdResponses[s] = [pull |-> "ok", create |-> "ok", json |-> "ok"]
              /\ Cardinality(EffectsOf(s)) = 3
        /\ cdPc[s] = "error" =>
              /\ cdError[s] # ""
              /\ \E k \in {"pull", "create", "json"} :
                    cdResponses[s][k] \in {"notOk", "rejected"}

\* The step that runs the success effects closes the dialog and puts every
\* field back to its initial value; a step in which a mutation fails leaves
\* the fields, the dialog and the effects as they were.
C22_Steps ==
    /\ cdEffects' # cdEffects =>
          /\ cdFields' = InitialForm
          /\ ~cdOpen'
          /\ \E s \in Submissions :
                cdEffects' = cdEffects \o
                    <<<<s, "invalidateQueries docker-containers">>,
                      <<s, "onClose">>, <<s, "resetForm">>>>
    /\ \A s \in Submissions :
          FailureStep(s) => UNCHANGED <<cdFields, cdOpen, cdEffects>>

\* C22: a submission sends the pull request first and the create request
\* only after the pull response was ok (none when the pull fails); the
\* query is invalidated, the dialog closed and every field reset only after
\* both requests succeeded; on any failure the fields are left unchanged
\* and the dialog is not closed.
C22_PullThenCreateThenEffects == [][C22_Order /\ C22_Order' /\ C22_Steps]_vars

\* A submission of an edited form failed at the pull and sent no create
\* request, the dialog is open with the edited fields, and the other
\* submission has gone through both requests and awaits the body.
C22_Witness ==
    /\ cdPc["s1"] = "error"
    /\ cdError["s1"] = "Failed to pull image"
    /\ SentAt("s1", "/api/docker/containers") = {}
    /\ cdPc["s2"] = "json"
    /\ cdOpen
    /\ cdFields.image = "nginx"
    /\ cdFields # InitialForm

(***************************************************************************)
(*          DELETE /docker/containers/:id, DELETE /docker/images/:id       *)
(***************************************************************************)

RemoveRoutes == {"/containers/:id", "/images/:id"}
RemoveIds == {"3f2a", "nginx"}

\* The `force` member that the request supplies: absent or any string.
ForceValues == {q \in QueryValues : q.type # "array"}

RemoveInit ==
    /\ rmRoute \in RemoveRoutes
    /\ rmParams \in [id : RemoveIds, force : ForceValues]
    /\ rmPc = "idle"
    /\ rmParsed = {}
    /\ rmCalls = <<>>
    /\ rmReply = [status |-> "", error |-> ""]

RemoveOff ==
    /\ rmRoute = "/containers/:id"
    /\ rmParams = [id |-> "3f2a", force |-> [type |-> "undefined", value |-> ""]]
    /\ rmPc = "off"
    /\ rmParsed = {}
    /\ rmCalls = <<>>
    /\ rmReply = [status |-> "", error |-> ""]

\* docker.getContainer(id) on one route, docker.getImage(id) on the other.
RemoveTarget(route) == IF route = "/containers/:id" THEN "getContainer" ELSE "getImage"

\* A handler that passes the parsed flag on.
removeOptionsParsed(force) == [force |-> force]

\* The argument of remove: the literal { force: false }.
removeOptions(force) == [force |-> FALSE]

\* The handler up to its await: the schema parses id and force, of which
\* only id is destructured, and remove is called.
removeRequest ==
    /\ rmPc = "idle"
    /\ rmParsed' = {[id |-> rmParams.id, force |-> ParseFlag(rmParams.force)]}
    /\ rmCalls' = Append(rmCalls,
                         [target |-> RemoveTarget(rmRoute), id |-> rmParams.id,
                          options |-> removeOptions(ParseFlag(rmParams.force))])
    /\ rmPc' = "remove"
    /\ UNCHANGED <<rmRoute, rmParams, rmReply>>
    /\ Others("remove")

\* remove settles: { status: 'removed' }, or the rejection leaves the
\* handler, which has no try/catch.
removeSettled(err) ==
    /\ rmPc = "remove"
    /\ rmPc' = "done"
    /\ rmReply' = IF err = "" THEN [status |-> "removed", error |-> ""]
                  ELSE [status |-> "", error |-> err]
    /\ UNCHANGED <<rmRoute, rmParams, rmParsed, rmCalls>>
    /\ Others("remove")

RemoveNext ==
    \/ removeRequest
    \/ \E err \in DockerErrors : removeSettled(err)

\* C23: on both DELETE routes the Docker remove operation is called with
\* force = false whatever force value the request supplies; the parsed
\* force field never influences the call.
C23_RemoveNeverForced ==
    /\ \A i \in 1..Len(rmCalls) :
          /\ rmCalls[i].options = [force |-> FALSE]
          /\ rmCalls[i].target = RemoveTarget(rmRoute)
          /\ rmCalls[i].id = rmParams.id
    /\ rmPc \in {"remove", "done"} =>
          /\ Len(rmCalls) = 1
          /\ rmParsed = {[id |-> rmParams.id,
                          force |-> (rmParams.force = [type |-> "string", value |-> "true"])]}

\* force 'true' on the images route: parsed as true, removed with
\* force = false.
C23_Witness ==
    /\ rmRoute = "/images/:id"
    /\ rmParams.force = [type |-> "string", value |-> "true"]
    /\ \E p \in rmParsed : p.force
    /\ rmPc = "done"
    /\ rmReply.status = "removed"
    /\ Len(rmCalls) = 1
    /\ ~rmCalls[1].options.force

(***************************************************************************)
(*                            SPECIFICATIONS                               *)
(***************************************************************************)

Boot(sys) ==
    /\ IF sys = "iso" THEN IsoInit ELSE IsoOff
    /\ IF sys = "logs" THEN LogsInit ELSE LogsOff
    /\ IF sys = "bytes" THEN BytesInit ELSE BytesOff
    /\ IF sys = "stats" THEN StatsInit
       ELSE IF sys = "stats-io" THEN StatsIoInit
       ELSE StatsOff
    /\ IF sys = "info" THEN InfoInit ELSE InfoOff
    /\ IF sys = "create" THEN CreateInit ELSE CreateOff
    /\ IF sys = "perf" THEN PerfInit(Requests, QuietPrints)
       ELSE IF sys = "perf-parse" THEN PerfInit({"r1"}, ProbePrints)
       ELSE PerfOff
    /\ IF sys = "power" THEN PowerInit ELSE PowerOff
    /\ IF sys = "pull" THEN PullInit ELSE PullOff
    /\ IF sys = "actions" THEN ActionsInit ELSE ActionsOff
    /\ IF sys = "list" THEN ListInit ELSE ListOff
    /\ IF sys = "dialog" THEN DialogInit ELSE DialogOff
    /\ IF sys = "remove" THEN RemoveInit ELSE RemoveOff

SpecIso == Boot("iso") /\ [][IsoNext]_vars

SpecLogs == Boot("logs") /\ [][LogsNext]_vars

SpecBytes == Boot("bytes") /\ [][BytesNext]_vars

SpecStats == Boot("stats") /\ [][StatsNext]_vars

\* GET /docker/stats with one container and any network and block I/O.
SpecStatsIo == Boot("stats-io") /\ [][StatsNext]_vars

SpecInfo == Boot("info") /\ [][InfoNext]_vars

SpecCreate == Boot("create") /\ [][CreateNext]_vars

\* Two clients, dd silent on stdout as it is on Linux.
SpecPerf == Boot("perf") /\ [][PerfNext]_vars

\* One client, the commands printing any text.
SpecPerfParse == Boot("perf-parse") /\ [][PerfNext]_vars

SpecPower == Boot("power") /\ [][PowerNext]_vars

SpecPull == Boot("pull") /\ [][PullNext]_vars

SpecActions == Boot("actions") /\ [][ActionsNext]_vars

\* The dialog, open with its initial fields, and two clicks on its button.
SpecDialog == Boot("dialog") /\ [][DialogNext]_vars

\* A DELETE request on either route, with any id and force.
SpecRemove == Boot("remove") /\ [][RemoveNext]_vars

\* GET /info or GET /docker/containers, with any value of the flag.
SpecFlags ==
    /\ \E sys \in {"info", "list"} : Boot(sys)
    /\ [][FlagsNext]_vars

\* Any one of the handlers with an external call that may fail.
SpecHandlers ==
    /\ \E sys \in {"power", "logs", "stats-io", "actions", "perf"} : Boot(sys)
    /\ [][HandlersNext]_vars

=============================================================================
